---- MODULE Spec2Model ----
(***************************************************************************)
(* Model of src/orchestrator.py: the five-phase cycle engine               *)
(* (ClaudeOrchestrator), the CircuitBreaker, the StateManager and the      *)
(* RateLimiter, and of the GOBOTRateLimiter of src/gobot_rate_limiter.py.  *)
(* Spec is the engine driven through one run(); SpecOnDisk is the same on  *)
(* a state directory of earlier runs; SpecCB is a CircuitBreaker driven by *)
(* a caller through call(); SpecRL is a RateLimiter driven by callers of   *)
(* acquire(), and SpecRLFair is the same under a running event loop;       *)
(* SpecSM is a StateManager driven by callers of its methods; SpecWriters  *)
(* is one progress.json with one or two writers; SpecGobot is a            *)
(* GOBOTRateLimiter with its requests and its error reports.               *)
(***************************************************************************)
EXTENDS Integers, Sequences, FiniteSets, TLC

VARIABLES
    \* ---- ClaudeOrchestrator ----
    pc,               \* position of run(): "init","loop","acquire","handler","sleep","done"
    max_iterations,   \* run()'s local max_iterations after the `or` default
    i,                \* run()'s loop variable
    current_cycle,    \* self.current_cycle (CycleState), NoCycle before the first cycle
    cycles_completed, \* self.cycles_completed
    cycle_ret,        \* return value of the last finished _run_cycle: "none","true","false"
    ret,              \* how run() ended: "none", "true", "false", or "raised"
    handlers,         \* which phase handlers are registered: "default" or "stub"
    predicate,        \* which _check_completion_signal is bound: "default" or "override"
    request_count,    \* number of grants of rate_limiter.acquire() (len(request_times))
    \* ---- observation of the engine (history) ----
    cycle_log,        \* cycle numbers _run_cycle was invoked with, in order
    handler_log,      \* every handler invocation, in order: its cycle, its phase, the
                      \* phase_results it could read, and how it ended
    acquire_log,      \* <<cycle number, phase>> of every acquire() that returned, in order
    signal_log,       \* results of the evaluations of the completion predicate, in order
    sleeps,           \* completed inter-iteration delays
    completed0,       \* cycles_completed when run() was called
    run_arg,          \* the max_iterations argument run() was called with
    \* ---- StateManager (files) ----
    branch_file,      \* state_dir/branch.json
    progress_file,    \* state_dir/progress.json
    prd_file,         \* state_dir/prd.json: "absent" or "present"
    archive,          \* archive_dir: set of [folder, progress, prd]
    today,            \* datetime.now().strftime("%Y-%m-%d"), as a day number
    sm_last,          \* history: the last call made on the StateManager, numbered
    \* ---- CircuitBreaker ----
    cb_state,         \* self.state
    failure_count,    \* self.failure_count
    last_failure_time,\* self.last_failure_time, NoTime for None
    failure_threshold,\* self.failure_threshold
    recovery_timeout, \* self.recovery_timeout
    now,              \* datetime.now(), in seconds
    cb_pc,            \* position of call(): "idle" or "running" (inside func)
    cb_log,           \* outcomes of the calls: "returned","raised","rejected", in order
    \* ---- RateLimiter ----
    rpm_limit,        \* self.rpm_limit
    rph_limit,        \* self.rph_limit
    minute_bucket,    \* self.minute_bucket, in units of 1/TokenUnit of a token
    hour_bucket,      \* self.hour_bucket, in units of 1/TokenUnit of a token
    last_refill,      \* self.last_refill, in seconds
    request_times,    \* self.request_times, in seconds
    rl_pc,            \* position of each caller's acquire(): "idle", "wait" (inside
                      \* sleep(wait_time)) or "recheck" (inside sleep(1.0))
    rl_wake,          \* the time each caller's pending sleep ends
    rl_call,          \* the locals of each caller's acquire() in progress
    \* ---- observation of the limiter (history) ----
    rl_log,           \* one record per acquire() that returned, in order
    rl_callers,       \* the tasks that call acquire()
    rl_budget,        \* acquire() calls still to be made
    rl_ticks,         \* clock advances made outside of acquire()
    \* ---- GOBOTRateLimiter (gobot_rate_limiter.py) ----
    g_now,            \* datetime.now(), in ticks of 0.1 s
    g_queue,          \* self.request_queue: [id, priority], in list order
    g_minute,         \* self.minute_bucket, in units of 1/GTokenUnit of a token
    g_hour,           \* self.hour_bucket, in units of 1/GTokenUnit of a token
    g_last_refill,    \* self.last_refill, in ticks
    g_backoff,        \* self.backoff_multiplier, as <<numerator, denominator>>
    g_pc,             \* position of each request's acquire(): "idle", "sleeping",
                      \* "approved" (returned) or "timeout" (raised TimeoutError)
    g_start,          \* start_time of each request's _wait_for_slot, in ticks
    g_wake,           \* the time each request's pending sleep ends, in ticks
    \* ---- observation of the GOBOTRateLimiter (history) ----
    g_last,           \* the last approval, numbered: the queue and the buckets it found
    g_ops,            \* handle_error / handle_success calls made
    g_ticks,          \* clock advances made
    \* ---- writers of progress.json, each inside add_pattern / add_cycle_result ----
    wr_set,           \* the StateManagers writing to the state directory
    wr_pc,            \* position of each writer: "idle" or "loaded" (between
                      \* load_progress and save_progress)
    wr_local,         \* the document each writer loaded
    wr_item,          \* what each writer is adding
    wr_added          \* history: what the calls that returned have added

engine_vars == <<pc, max_iterations, i, current_cycle, cycles_completed, cycle_ret, ret,
                 handlers, predicate, request_count, cycle_log, handler_log,
                 acquire_log, signal_log, sleeps, completed0, run_arg>>
sm_vars == <<branch_file, progress_file, prd_file, archive, today>>
cb_vars == <<cb_state, failure_count, last_failure_time, failure_threshold,
             recovery_timeout, now, cb_pc, cb_log>>
cb_rest == <<cb_state, failure_count, last_failure_time, failure_threshold,
             recovery_timeout, cb_pc, cb_log>>
rl_vars == <<rpm_limit, rph_limit, minute_bucket, hour_bucket, last_refill, request_times,
             rl_pc, rl_wake, rl_call, rl_log, rl_callers, rl_budget, rl_ticks>>
grl_vars == <<g_now, g_queue, g_minute, g_hour, g_last_refill, g_backoff, g_pc, g_start,
              g_wake, g_last, g_ops, g_ticks>>
wr_vars == <<wr_set, wr_pc, wr_local, wr_item, wr_added>>
vars == <<engine_vars, sm_vars, cb_vars, rl_vars, sm_last, grl_vars, wr_vars>>

----------------------------------------------------------------------------
(* Bounds of the model *)

\* largest max_iterations passed to run() or configured
MaxIterations == 2
\* largest value of cycles_completed at the call of run()
MaxPrior == 3
\* number of call()s made on the circuit breaker
MaxCalls == 4
\* the clock stops at MaxTime seconds
MaxTime == 3
\* largest failure_threshold a breaker is constructed with
MaxThreshold == 2
\* largest recovery_timeout a breaker is constructed with
MaxTimeout == 2
\* largest requests_per_minute of a limiter with one caller, who makes up to
\* MaxRpm + 1 calls of acquire()
MaxRpm == 11
\* largest requests_per_minute and requests_per_hour of a limiter shared by
\* the tasks of Callers
MaxSharedRpm == 2
MaxSharedRph == 2
\* number of acquire() calls made on a shared limiter
MaxAcquires == 3
\* number of times the clock advances outside of acquire()
MaxTicks == 2
\* number of calls made on a StateManager
MaxOps == 3
\* the last day of the model's calendar
MaxDay == 2
\* largest max_iterations passed to run() on a state directory of earlier runs
MaxDiskIterations == 3
\* requests made on the GOBOTRateLimiter
MaxRequests == 2
\* handle_error / handle_success calls
MaxBackoffOps == 2
\* clock advances of the GOBOTRateLimiter's model
MaxGTicks == 2
\* add_pattern / add_cycle_result calls the writers make together
MaxWrites == 3

----------------------------------------------------------------------------
(* CyclePhase *)

\* list(CyclePhase): the enum in declaration order
CyclePhase == <<"data_scan", "idea", "code_edit", "backtest", "report", "complete">>

\* the phases _run_cycle executes: every member but COMPLETE, in order
ExecutedPhases == SubSeq(CyclePhase, 1, Len(CyclePhase) - 1)

NoCycle == [cycle_id |-> 0, current_phase |-> "data_scan", phase_results |-> <<>>,
            success |-> FALSE, error_message |-> "", ended |-> FALSE]

\* CycleState(cycle_id, start_time) with the dataclass defaults
CycleState(num) == [cycle_id |-> num, current_phase |-> "data_scan",
                    phase_results |-> <<>>, success |-> FALSE,
                    error_message |-> "", ended |-> FALSE]

\* position of a phase in the enum
PhaseIndex(p) == CHOOSE k \in 1..Len(CyclePhase) : CyclePhase[k] = p

----------------------------------------------------------------------------
(* StateManager *)

\* branch identifiers passed to run(); "feat/x" and "feat-x" name the same folder
Branches == {"main", "feat/x", "feat-x"}

\* None, as returned by get_current_branch
NoBranch == "None"

AbsentFile == [kind |-> "absent", branch |-> NoBranch, cycles |-> <<>>, patterns |-> <<>>]
CorruptFile == [kind |-> "corrupt", branch |-> NoBranch, cycles |-> <<>>, patterns |-> <<>>]

\* a file whose bytes are no text: read_text() raises UnicodeDecodeError
UndecodableFile ==
    [kind |-> "undecodable", branch |-> NoBranch, cycles |-> <<>>, patterns |-> <<>>]

\* a branch.json holding {"branch": b, "timestamp": ...}
BranchDoc(b) == [kind |-> "json", branch |-> b, cycles |-> <<>>, patterns |-> <<>>]

\* a progress.json holding {"cycles": c, "patterns": p, "start_time": ...}
ProgressDoc(c, p) == [kind |-> "json", branch |-> NoBranch, cycles |-> c, patterns |-> p]

\* get_current_branch: the stored id, None when the file is missing or unreadable
GetCurrentBranch(bf) == IF bf.kind = "json" THEN bf.branch ELSE NoBranch

\* set_current_branch: overwrite the marker
SetCurrentBranch(b) == BranchDoc(b)

\* mutant of ShouldArchive: the test for a missing marker is left out
ShouldArchiveAnyMarker(bf, b) == GetCurrentBranch(bf) # b

\* should_archive
ShouldArchive(bf, b) == GetCurrentBranch(bf) # NoBranch /\ GetCurrentBranch(bf) # b

\* last_branch.replace("/", "-")
Sanitize(b) == IF b = "feat/x" THEN "feat-x" ELSE b

\* archive_dir / f"{date_str}-{folder_name}"
ArchiveFolder(day, b) == <<day, Sanitize(b)>>

\* the folder's content before the copy: what an earlier archive left there
FolderBefore(ar, f) ==
    IF \E e \in ar : e.folder = f
    THEN CHOOSE e \in ar : e.folder = f
    ELSE [folder |-> f, progress |-> AbsentFile, prd |-> "absent"]

\* dest.write_text(file_path.read_text()) on prd.json: text mode reads "\r\n"
\* as "\n" and writes "\n" as os.linesep, which is "\n" on POSIX
CopyText(content) == IF content = "present-crlf" THEN "present" ELSE content

\* file_path.read_text() raises on the progress file
ReadRaises(pf) == pf.kind = "undecodable"

\* mkdir(exist_ok=True), then each existing state file overwrites its copy; the
\* progress file comes first, and when reading it raises nothing is copied; a
\* progress file this program or a text editor wrote is "\n"-separated text,
\* which the copy leaves as it is
ArchiveCopy(ar, f, pf, prd) ==
    LET old == FolderBefore(ar, f)
        new == [folder |-> f,
                progress |-> IF pf.kind # "absent" /\ ~ReadRaises(pf)
                             THEN pf ELSE old.progress,
                prd |-> IF prd # "absent" /\ ~ReadRaises(pf)
                        THEN CopyText(prd) ELSE old.prd]
    IN  {e \in ar : e.folder # f} \cup {new}

\* archive_current_state raises: the copy loop meets a file it cannot read
ArchiveRaises(bf, pf, b) == ShouldArchive(bf, b) /\ ReadRaises(pf)

\* archive_current_state: the archive directory afterwards
ArchiveAfter(ar, bf, pf, prd, day, b) ==
    IF ~ShouldArchive(bf, b) THEN ar
    ELSE ArchiveCopy(ar, ArchiveFolder(day, GetCurrentBranch(bf)), pf, prd)

\* archive_current_state: the branch marker afterwards
BranchAfterArchive(bf, pf, b) ==
    IF ~ShouldArchive(bf, b) \/ ArchiveRaises(bf, pf, b) THEN bf ELSE SetCurrentBranch(b)

\* mutant of LoadProgress: what the file holds is returned whenever it exists
LoadProgressAsStored(pf) == IF pf.kind # "absent" THEN pf ELSE ProgressDoc(<<>>, <<>>)

\* load_progress: the stored document, the empty document when missing or corrupt
LoadProgress(pf) == IF pf.kind = "json" THEN pf ELSE ProgressDoc(<<>>, <<>>)

\* save_progress
SaveProgress(doc) == ProgressDoc(doc.cycles, doc.patterns)

\* pattern in progress["patterns"]
HasPattern(doc, pattern) == \E k \in 1..Len(doc.patterns) : doc.patterns[k] = pattern

\* mutant of AddPattern: the membership test is left out
AddPatternAlways(pf, pattern) ==
    LET progress == LoadProgress(pf)
    IN  SaveProgress([progress EXCEPT !.patterns = Append(@, pattern)])

\* add_pattern: the progress file afterwards
AddPattern(pf, pattern) ==
    LET progress == LoadProgress(pf)
    IN  IF HasPattern(progress, pattern) THEN pf
        ELSE SaveProgress([progress EXCEPT !.patterns = Append(@, pattern)])

\* mutant of AddCycleResult: the list is started anew
AddCycleResultAnew(pf, result) ==
    LET progress == LoadProgress(pf)
    IN  SaveProgress([progress EXCEPT !.cycles = <<result>>])

\* add_cycle_result: the progress file afterwards
AddCycleResult(pf, result) ==
    LET progress == LoadProgress(pf)
    IN  SaveProgress([progress EXCEPT !.cycles = Append(@, result)])

\* the record of a StateManager call: the method, its string argument (a branch
\* or a pattern) or the cycle number of its CycleResult, how it ended, the
\* progress file it found, the branch it wrote to the marker (NoBranch when it
\* wrote none) and the document it returned; n counts the calls
SMRecord(op, arg, cycle, outcome, found, wrote, result) ==
    [n |-> sm_last.n + 1, op |-> op, arg |-> arg, cycle |-> cycle, outcome |-> outcome,
     found |-> found, wrote |-> wrote, result |-> result]

\* no call made yet
NoSMCall ==
    [n |-> 0, op |-> "none", arg |-> "", cycle |-> 0, outcome |-> "none",
     found |-> "none", wrote |-> NoBranch, result |-> AbsentFile]

----------------------------------------------------------------------------
(* ClaudeOrchestrator *)

\* config.max_iterations, used when run() is given None or 0
ConfigMaxIterations == MaxIterations

\* str(e) of the exception a stub handler raises
HandlerError == "Service unavailable"

\* mutant of DictSet: the assignment replaces the dict
DictSetOverwrite(keys, key) == <<key>>

\* phase_results[phase.value] = output, on a dict kept as its keys in insertion order
DictSet(keys, key) ==
    IF \E k \in 1..Len(keys) : keys[k] = key THEN keys ELSE Append(keys, key)

\* the insights _handle_data_scan records as patterns
DataScanInsights == <<"Data scan: FastAPI", "Data scan: async", "Data scan: migrations">>

\* _handle_data_scan: add_pattern for each insight, in order
RECURSIVE AddPatterns(_, _)
AddPatterns(pf, ps) ==
    IF ps = <<>> THEN pf ELSE AddPatterns(AddPattern(pf, Head(ps)), Tail(ps))

\* what the registered handler of a phase does to the progress file
HandlerEffect(kind, phase, pf) ==
    IF kind = "default" /\ phase = "data_scan" THEN AddPatterns(pf, DataScanInsights) ELSE pf

\* mutant of SuccessResult: list(CyclePhase) without the [:-1]
SuccessResultWithSentinel(cycle_id) ==
    [cycle_id |-> cycle_id,
     phases_completed |-> CyclePhase,
     success |-> TRUE,
     output |-> "Cycle completed successfully",
     learnings |-> [k \in 1..Len(ExecutedPhases) |->
                        [kind |-> "executed", phase |-> ExecutedPhases[k]]]]

\* the CycleResult of the success path
SuccessResult(cycle_id) ==
    [cycle_id |-> cycle_id,
     phases_completed |-> SubSeq(CyclePhase, 1, Len(CyclePhase) - 1),
     success |-> TRUE,
     output |-> "Cycle completed successfully",
     learnings |-> [k \in 1..Len(ExecutedPhases) |->
                        [kind |-> "executed", phase |-> ExecutedPhases[k]]]]

\* mutant of FailureResult: the phases that had completed are reported
FailureResultPartial(cycle_id, phase) ==
    [cycle_id |-> cycle_id,
     phases_completed |-> SubSeq(CyclePhase, 1, PhaseIndex(phase) - 1),
     success |-> FALSE,
     output |-> "Cycle failed",
     learnings |-> <<[kind |-> "error", phase |-> phase]>>]

\* the CycleResult of the except branch
FailureResult(cycle_id, phase) ==
    [cycle_id |-> cycle_id,
     phases_completed |-> <<>>,
     success |-> FALSE,
     output |-> "Cycle failed",
     learnings |-> <<[kind |-> "error", phase |-> phase]>>]

\* "PASSED" in output and "9" in str(metrics.quality_score): a record another
\* writer left; the engine's own records have neither
QualifyingSignal(rec) == rec.output = "PASSED quality 9"

\* mutant of CheckCompletionSignal: two cycles are enough
CheckCompletionSignalAtTwo(completed, pf) ==
    \/ completed >= 2
    \/ LET progress == LoadProgress(pf)
       IN  /\ progress.cycles # <<>>
           /\ progress.cycles[Len(progress.cycles)].success
           /\ QualifyingSignal(progress.cycles[Len(progress.cycles)])

\* the base class's _check_completion_signal
CheckCompletionSignal(completed, pf) ==
    \/ completed >= 3
    \/ LET progress == LoadProgress(pf)
       IN  /\ progress.cycles # <<>>
           /\ progress.cycles[Len(progress.cycles)].success
           /\ QualifyingSignal(progress.cycles[Len(progress.cycles)])

\* mutant of CompletionSignals: the predicate is evaluated before the cycle is
\* counted
CompletionSignalsBeforeCount(kind, completed, pf) ==
    IF kind = "default" THEN {CheckCompletionSignal(completed - 1, pf)} ELSE BOOLEAN

\* the values _check_completion_signal may return: the base class computes it, an
\* overriding subclass decides from state of its own
CompletionSignals(kind, completed, pf) ==
    IF kind = "default" THEN {CheckCompletionSignal(completed, pf)} ELSE BOOLEAN

\* the phase the for loop takes after `phase`, skipping COMPLETE; "complete" when
\* the loop is over
NextPhase(phase) ==
    LET k == PhaseIndex(phase)
    IN  IF k < Len(CyclePhase) THEN CyclePhase[k + 1] ELSE "complete"

BoolStr(b) == IF b THEN "true" ELSE "false"

\* mutant of RunAfterCycle: the `return True` is missing
RunAfterCycleNoReturn(success) == "sleep"

\* run() after `success = await self._run_cycle(i)`: return True, or go to the sleep
RunAfterCycle(success) == IF success THEN "done" ELSE "sleep"

\* run(max_iterations, current_branch) up to the for loop; an exception of
\* archive_current_state is caught nowhere and ends run()
Run(arg, b) ==
    /\ pc = "init"
    /\ max_iterations' = (IF arg = 0 THEN ConfigMaxIterations ELSE arg)
    /\ archive' = ArchiveAfter(archive, branch_file, progress_file, prd_file, today, b)
    /\ IF ArchiveRaises(branch_file, progress_file, b)
       THEN /\ branch_file' = branch_file
            /\ ret' = "raised"
            /\ pc' = "done"
       ELSE /\ branch_file' = SetCurrentBranch(b)
            /\ ret' = ret
            /\ pc' = "loop"
    /\ sm_last' = IF ArchiveRaises(branch_file, progress_file, b)
                  THEN SMRecord("run", b, 0, "raised", progress_file.kind,
                                NoBranch, AbsentFile)
                  ELSE SMRecord("run", b, 0, "returned", progress_file.kind,
                                b, AbsentFile)
    /\ i' = 1
    /\ completed0' = cycles_completed
    /\ run_arg' = arg
    /\ UNCHANGED <<current_cycle, cycles_completed, cycle_ret, handlers, predicate,
                   request_count, cycle_log, handler_log, acquire_log, signal_log,
                   sleeps, progress_file, prd_file, today, cb_vars, rl_vars, grl_vars, wr_vars>>

\* mutant of InRange: range(1, max_iterations)
InRangeExclusive(n, max) == 1 <= n /\ n < max

\* i in range(1, max_iterations + 1)
InRange(n, max) == 1 <= n /\ n <= max

\* the for loop enters _run_cycle(i), which runs to its first await
StartCycle ==
    /\ pc = "loop"
    /\ InRange(i, max_iterations)
    /\ current_cycle' = CycleState(i)
    /\ cycle_log' = Append(cycle_log, i)
    /\ pc' = "acquire"
    /\ UNCHANGED <<max_iterations, i, cycles_completed, cycle_ret, ret, handlers,
                   predicate, request_count, handler_log, acquire_log, signal_log,
                   sleeps, completed0, run_arg, sm_vars, cb_vars, rl_vars, grl_vars, wr_vars, sm_last>>

\* the for loop is exhausted: run() returns False
Exhausted ==
    /\ pc = "loop"
    /\ ~InRange(i, max_iterations)
    /\ ret' = "false"
    /\ pc' = "done"
    /\ UNCHANGED <<max_iterations, i, current_cycle, cycles_completed, cycle_ret,
                   handlers, predicate, request_count, cycle_log, handler_log,
                   acquire_log, signal_log, sleeps, completed0, run_arg, sm_vars, cb_vars, rl_vars, grl_vars, wr_vars, sm_last>>

\* rate_limiter.acquire() returns and the phase's handler is invoked
AcquireReturns ==
    /\ pc = "acquire"
    /\ request_count' = request_count + 1
    /\ acquire_log' = Append(acquire_log, <<current_cycle.cycle_id, current_cycle.current_phase>>)
    /\ handler_log' = Append(handler_log,
                             [cycle |-> current_cycle.cycle_id,
                              phase |-> current_cycle.current_phase,
                              seen |-> current_cycle.phase_results,
                              outcome |-> "running"])
    /\ pc' = "handler"
    /\ UNCHANGED <<max_iterations, i, current_cycle, cycles_completed, cycle_ret, ret,
                   handlers, predicate, cycle_log, signal_log, sleeps, completed0,
                   run_arg, sm_vars, cb_vars, rl_vars, grl_vars, wr_vars, sm_last>>

\* the handler returns and a later phase remains: the loop goes to its acquire()
HandlerReturns ==
    /\ pc = "handler"
    /\ NextPhase(current_cycle.current_phase) # "complete"
    /\ progress_file' = HandlerEffect(handlers, current_cycle.current_phase, progress_file)
    /\ current_cycle' = [current_cycle EXCEPT
                            !.phase_results = DictSet(@, current_cycle.current_phase),
                            !.current_phase = NextPhase(@)]
    /\ handler_log' = [handler_log EXCEPT ![Len(handler_log)].outcome = "returned"]
    /\ pc' = "acquire"
    /\ UNCHANGED <<max_iterations, i, cycles_completed, cycle_ret, ret, handlers,
                   predicate, request_count, cycle_log, acquire_log,
                   signal_log, sleeps, completed0, run_arg, branch_file, prd_file,
                   archive, today, cb_vars, rl_vars, grl_vars, wr_vars, sm_last>>

\* the last handler returns: the cycle is persisted, counted and the completion
\* predicate evaluated; run() returns True or goes to its sleep
CycleSucceeds ==
    /\ pc = "handler"
    /\ NextPhase(current_cycle.current_phase) = "complete"
    /\ current_cycle' = [current_cycle EXCEPT
                            !.phase_results = DictSet(@, current_cycle.current_phase),
                            !.success = TRUE,
                            !.ended = TRUE]
    /\ progress_file' =
           AddCycleResult(HandlerEffect(handlers, current_cycle.current_phase, progress_file),
                          SuccessResult(current_cycle.cycle_id))
    /\ cycles_completed' = cycles_completed + 1
    /\ \E signal \in CompletionSignals(predicate, cycles_completed', progress_file') :
          /\ signal_log' = Append(signal_log,
                                   [cycle |-> current_cycle.cycle_id, value |-> signal])
          /\ cycle_ret' = BoolStr(signal)
          /\ pc' = RunAfterCycle(signal)
          /\ ret' = (IF RunAfterCycle(signal) = "done" THEN "true" ELSE ret)
    /\ handler_log' = [handler_log EXCEPT ![Len(handler_log)].outcome = "returned"]
    /\ UNCHANGED <<max_iterations, i, handlers, predicate, request_count, cycle_log,
                   acquire_log, sleeps, completed0, run_arg, branch_file, prd_file,
                   archive, today, cb_vars, rl_vars, grl_vars, wr_vars, sm_last>>

\* mutant of HandlerRaises: the failure is caught per phase and the phase retried
HandlerRaisesRetry ==
    /\ pc = "handler"
    /\ handlers = "stub"
    /\ Len(handler_log) < 12
    /\ handler_log' = [handler_log EXCEPT ![Len(handler_log)].outcome = "raised"]
    /\ pc' = "acquire"
    /\ UNCHANGED <<max_iterations, i, current_cycle, cycles_completed, cycle_ret, ret,
                   handlers, predicate, request_count, cycle_log, acquire_log,
                   signal_log, sleeps, completed0, run_arg, sm_vars, cb_vars, rl_vars, grl_vars, wr_vars, sm_last>>

\* the handler raises: the except branch persists the failure and _run_cycle
\* returns False; run() goes to its sleep
HandlerRaises ==
    /\ pc = "handler"
    /\ handlers = "stub"
    /\ current_cycle' = [current_cycle EXCEPT
                            !.success = FALSE,
                            !.error_message = HandlerError,
                            !.ended = TRUE]
    /\ progress_file' = AddCycleResult(progress_file,
                            FailureResult(current_cycle.cycle_id, current_cycle.current_phase))
    /\ handler_log' = [handler_log EXCEPT ![Len(handler_log)].outcome = "raised"]
    /\ cycle_ret' = "false"
    /\ pc' = RunAfterCycle(FALSE)
    /\ UNCHANGED <<max_iterations, i, cycles_completed, ret, handlers, predicate,
                   request_count, cycle_log, acquire_log, signal_log, sleeps,
                   completed0, run_arg, branch_file, prd_file, archive, today, cb_vars, rl_vars, grl_vars, wr_vars, sm_last>>

\* asyncio.sleep(sleep_between_iterations) returns: the loop advances
SleepDone ==
    /\ pc = "sleep"
    /\ sleeps' = sleeps + 1
    /\ i' = i + 1
    /\ pc' = "loop"
    /\ UNCHANGED <<max_iterations, current_cycle, cycles_completed, cycle_ret, ret,
                   handlers, predicate, request_count, cycle_log, handler_log,
                   acquire_log, signal_log, completed0, run_arg, sm_vars, cb_vars, rl_vars, grl_vars, wr_vars, sm_last>>

----------------------------------------------------------------------------
(* CircuitBreaker *)

\* OrchestratorConfig.circuit_breaker_failure_threshold
DefaultFailureThreshold == 5
\* OrchestratorConfig.circuit_breaker_recovery_timeout
DefaultRecoveryTimeout == 60

\* last_failure_time is None
NoTime == -1

\* mutant of ShouldAttemptReset: elapsed > recovery_timeout
ShouldAttemptResetStrict(last, clock, timeout) ==
    IF last = NoTime THEN FALSE ELSE clock - last > timeout

\* _should_attempt_reset
ShouldAttemptReset(last, clock, timeout) ==
    IF last = NoTime THEN FALSE ELSE clock - last >= timeout

\* state after the OPEN check at the head of call(); "rejected" when it raises
StateAfterCheck(state, last, clock, timeout) ==
    IF state = "OPEN"
    THEN IF ShouldAttemptReset(last, clock, timeout) THEN "HALF_OPEN" ELSE "rejected"
    ELSE state

\* _on_failure: the new failure_count
FailureCountAfterFailure(count) == count + 1

\* mutant of StateAfterFailure: failure_count > failure_threshold
StateAfterFailureOffByOne(state, count, threshold) ==
    IF FailureCountAfterFailure(count) > threshold THEN "OPEN" ELSE state

\* mutant of StateAfterFailure: failure_count == failure_threshold
StateAfterFailureExact(state, count, threshold) ==
    IF FailureCountAfterFailure(count) = threshold THEN "OPEN" ELSE state

\* _on_failure: the new state
StateAfterFailure(state, count, threshold) ==
    IF FailureCountAfterFailure(count) >= threshold THEN "OPEN" ELSE state

\* mutant of FailureCountAfterSuccess: the counter is not reset
FailureCountNotReset(count) == count

\* _on_success: the new failure_count
FailureCountAfterSuccess(count) == 0

\* mutant of StateAfterSuccess: the state is left as it is
StateAfterSuccessKeeps(state) == state

\* _on_success: the new state
StateAfterSuccess(state) == "CLOSED"

\* the exceptions func may raise
WorkErrors == {"ZeroDivisionError", "Exception: Service unavailable"}

\* Exception("Circuit breaker is OPEN - failing fast")
BreakerOpenError == "Exception: Circuit breaker is OPEN - failing fast"

\* RuntimeError("Circuit breaker does not support async functions directly. ...")
AsyncError == "RuntimeError: Circuit breaker does not support async functions directly"

\* type(e): the class of an exception call() raises
ErrorType(e) ==
    IF e = "ZeroDivisionError" THEN "ZeroDivisionError"
    ELSE IF e = AsyncError THEN "RuntimeError"
    ELSE "Exception"

\* one entry of the record of calls: how the call ended, the state it was made in,
\* whether func was executed, what func raised and what call() raised
CallRecord(outcome, from, executed, work_error, error) ==
    [outcome |-> outcome, from |-> from, executed |-> executed,
     work_error |-> work_error, error |-> error]

\* mutant of CallRejected: the rejection is recorded as a failure
CallRejectedCounted ==
    /\ cb_pc = "idle"
    /\ Len(cb_log) < MaxCalls
    /\ StateAfterCheck(cb_state, last_failure_time, now, recovery_timeout) = "rejected"
    /\ last_failure_time' = now
    /\ cb_log' = Append(cb_log, CallRecord("rejected", cb_state, FALSE, "none", BreakerOpenError))
    /\ UNCHANGED <<cb_state, failure_count, failure_threshold,
                   recovery_timeout, now, cb_pc, engine_vars, sm_vars, rl_vars, grl_vars, wr_vars, sm_last>>

\* call(func) while OPEN before the recovery timeout: raises without running func
CallRejected ==
    /\ cb_pc = "idle"
    /\ Len(cb_log) < MaxCalls
    /\ StateAfterCheck(cb_state, last_failure_time, now, recovery_timeout) = "rejected"
    /\ cb_log' = Append(cb_log, CallRecord("rejected", cb_state, FALSE, "none", BreakerOpenError))
    /\ UNCHANGED <<cb_state, failure_count, last_failure_time, failure_threshold,
                   recovery_timeout, now, cb_pc, engine_vars, sm_vars, rl_vars, grl_vars, wr_vars, sm_last>>

\* call(func) passes the OPEN check and enters func
CallEnter ==
    /\ cb_pc = "idle"
    /\ Len(cb_log) < MaxCalls
    /\ StateAfterCheck(cb_state, last_failure_time, now, recovery_timeout) # "rejected"
    /\ cb_state' = StateAfterCheck(cb_state, last_failure_time, now, recovery_timeout)
    /\ cb_log' = Append(cb_log, CallRecord("running", cb_state, TRUE, "none", "none"))
    /\ cb_pc' = "running"
    /\ UNCHANGED <<failure_count, last_failure_time, failure_threshold,
                   recovery_timeout, now, engine_vars, sm_vars, rl_vars, grl_vars, wr_vars, sm_last>>

\* call(func) with a coroutine function: passes the OPEN check, raises RuntimeError
\* inside the try without running func, and the except branch records a failure
CallCoroutine ==
    /\ cb_pc = "idle"
    /\ Len(cb_log) < MaxCalls
    /\ StateAfterCheck(cb_state, last_failure_time, now, recovery_timeout) # "rejected"
    /\ failure_count' = FailureCountAfterFailure(failure_count)
    /\ last_failure_time' = now
    /\ cb_state' = StateAfterFailure(
                       StateAfterCheck(cb_state, last_failure_time, now, recovery_timeout),
                       failure_count, failure_threshold)
    /\ cb_log' = Append(cb_log, CallRecord("raised", cb_state, FALSE, "none", AsyncError))
    /\ UNCHANGED <<failure_threshold, recovery_timeout, now, cb_pc, engine_vars, sm_vars, rl_vars, grl_vars, wr_vars, sm_last>>

\* func returns: _on_success, call() returns the result
WorkReturns ==
    /\ cb_pc = "running"
    /\ failure_count' = FailureCountAfterSuccess(failure_count)
    /\ cb_state' = StateAfterSuccess(cb_state)
    /\ cb_log' = [cb_log EXCEPT ![Len(cb_log)].outcome = "returned"]
    /\ cb_pc' = "idle"
    /\ UNCHANGED <<last_failure_time, failure_threshold, recovery_timeout, now,
                   engine_vars, sm_vars, rl_vars, grl_vars, wr_vars, sm_last>>

\* the bare `raise` of the except branch: the exception call() raises
Reraise(e) == e

\* func raises: _on_failure, call() re-raises
WorkRaises ==
    /\ cb_pc = "running"
    /\ failure_count' = FailureCountAfterFailure(failure_count)
    /\ last_failure_time' = now
    /\ cb_state' = StateAfterFailure(cb_state, failure_count, failure_threshold)
    /\ \E e \in WorkErrors :
          cb_log' = [cb_log EXCEPT ![Len(cb_log)].outcome = "raised",
                                   ![Len(cb_log)].work_error = e,
                                   ![Len(cb_log)].error = Reraise(e)]
    /\ cb_pc' = "idle"
    /\ UNCHANGED <<failure_threshold, recovery_timeout, now, engine_vars, sm_vars, rl_vars, grl_vars, wr_vars, sm_last>>

\* a second of wall-clock time passes
Tick ==
    /\ now < MaxTime
    /\ now' = now + 1
    /\ UNCHANGED <<cb_state, failure_count, last_failure_time, failure_threshold,
                   recovery_timeout, cb_pc, cb_log, engine_vars, sm_vars, rl_vars, grl_vars, wr_vars, sm_last>>

----------------------------------------------------------------------------
(* RateLimiter (src/orchestrator.py) *)

\* Buckets are fractions of a token: refill adds elapsed/60 * rpm_limit and
\* elapsed/3600 * rph_limit.  With the clock in whole seconds every bucket value
\* is a multiple of 1/3600 token, which is the unit the model counts in.
TokenUnit == 3600

MinuteWindow == 60
HourWindow == 3600
BackoffRequests == 10
BackoffSpan == 60
BackoffFactor == 2
RecheckSleep == 1
DefaultRequestsPerMinute == 60
DefaultRequestsPerHour == 1000

Min(a, b) == IF a <= b THEN a ELSE b
Max(a, b) == IF a >= b THEN a ELSE b

\* the tasks that may call acquire()
Callers == {1, 2}

\* RateLimiter._refill_buckets, minute bucket without the cap (mutant)
RefillMinuteUncapped(bucket, limit, elapsed) ==
    IF elapsed > 0
    THEN bucket + (elapsed * limit * TokenUnit) \div MinuteWindow
    ELSE bucket

\* RateLimiter._refill_buckets: the minute bucket after `elapsed` seconds
RefillMinute(bucket, limit, elapsed) ==
    IF elapsed > 0
    THEN Min(limit * TokenUnit, bucket + (elapsed * limit * TokenUnit) \div MinuteWindow)
    ELSE bucket

\* RateLimiter._refill_buckets: the hour bucket after `elapsed` seconds
RefillHour(bucket, limit, elapsed) ==
    IF elapsed > 0
    THEN Min(limit * TokenUnit, bucket + (elapsed * limit * TokenUnit) \div HourWindow)
    ELSE bucket

\* RateLimiter._refill_buckets: self.last_refill afterwards
LastRefillAfter(last, clock) == IF clock - last > 0 THEN clock ELSE last

\* RateLimiter._clean_old_requests
CleanOldRequests(times, clock) == SelectSeq(times, LAMBDA t : t > clock - HourWindow)

\* backoff_multiplier of acquire(): the ten most recent requests of the history
\* span less than 60 seconds
BackoffMultiplier(times) ==
    IF /\ Len(times) >= BackoffRequests
       /\ times[Len(times)] - times[Len(times) - BackoffRequests + 1] < BackoffSpan
    THEN BackoffFactor
    ELSE 1

\* wait_time of acquire(), before the multiplier
BaseWait(minute, hour, elapsed_since_refill) ==
    LET w0 == 0
        w1 == IF minute < TokenUnit THEN Max(w0, MinuteWindow - elapsed_since_refill) ELSE w0
        w2 == IF hour < TokenUnit THEN Max(w1, HourWindow - elapsed_since_refill) ELSE w1
    IN  w2

\* wait_time of acquire() without the multiplier (mutant)
WaitTimeUnscaled(minute, hour, elapsed_since_refill, multiplier) ==
    BaseWait(minute, hour, elapsed_since_refill)

\* wait_time of acquire() with a floor of one second under backoff (mutant)
WaitTimeFloor(minute, hour, elapsed_since_refill, multiplier) ==
    IF multiplier > 1
    THEN Max(1, BaseWait(minute, hour, elapsed_since_refill)) * multiplier
    ELSE BaseWait(minute, hour, elapsed_since_refill)

\* wait_time of acquire(): wait_time *= backoff_multiplier
WaitTime(minute, hour, elapsed_since_refill, multiplier) ==
    BaseWait(minute, hour, elapsed_since_refill) * multiplier

\* `if self.minute_bucket < 1 or self.hour_bucket < 1` of acquire()
BucketEmpty(minute, hour) == minute < TokenUnit \/ hour < TokenUnit

\* what acquire() does when sleep(wait_time) or sleep(1.0) returns, polling
\* until a token shows up (mutant)
AfterSleepPolling(position, minute, hour) ==
    IF BucketEmpty(minute, hour) THEN "recheck" ELSE "grant"

\* what acquire() does when sleep(wait_time) or sleep(1.0) returns: after
\* sleep(wait_time) the buckets are looked at once more, after sleep(1.0) the
\* request is granted
AfterSleep(position, minute, hour) ==
    IF position = "wait" /\ BucketEmpty(minute, hour) THEN "recheck" ELSE "grant"

\* `max(0, bucket - 1)` of acquire()
Consume(bucket) == Max(0, bucket - TokenUnit)

\* the locals of an acquire() call: when it was made, its backoff_multiplier
\* and wait_time, the bucket values it read after its first refill, and the
\* number of sleeps it has started
CallLocals(clock, multiplier, wait, minute, hour) ==
    [called_at |-> clock, multiplier |-> multiplier, wait |-> wait,
     minute_seen |-> minute, hour_seen |-> hour, slept |-> 0]

\* no acquire() made yet
NoCall == CallLocals(-1, 1, 0, 0, 0)

\* the sleeping caller whose sleep ends first is the one the event loop resumes
Sleeping == {c \in rl_callers : rl_pc[c] # "idle"}
EarliestSleeper(c) == \A d \in Sleeping : rl_wake[c] <= rl_wake[d]

\* acquire() consumes a token and returns (lines 224-226)
Grant(c, minute, hour, times, refilled_at, clock, locals) ==
    /\ minute_bucket' = Consume(minute)
    /\ hour_bucket' = Consume(hour)
    /\ request_times' = Append(times, clock)
    /\ last_refill' = refilled_at
    /\ rl_pc' = [rl_pc EXCEPT ![c] = "idle"]
    /\ rl_call' = [rl_call EXCEPT ![c] = locals]
    /\ rl_log' = Append(rl_log, [caller |-> c, called_at |-> locals.called_at,
                                 multiplier |-> locals.multiplier, wait |-> locals.wait,
                                 minute_seen |-> locals.minute_seen,
                                 hour_seen |-> locals.hour_seen,
                                 slept |-> locals.slept, granted_at |-> clock,
                                 minute_before |-> minute, hour_before |-> hour,
                                 minute_after |-> Consume(minute),
                                 hour_after |-> Consume(hour),
                                 recorded |-> Len(Append(times, clock)) - Len(times)])
    /\ UNCHANGED rl_wake

\* acquire() suspends in asyncio.sleep(duration) (lines 215 and 221)
Suspend(c, position, minute, hour, times, refilled_at, clock, duration, locals) ==
    /\ minute_bucket' = minute
    /\ hour_bucket' = hour
    /\ request_times' = times
    /\ last_refill' = refilled_at
    /\ rl_pc' = [rl_pc EXCEPT ![c] = position]
    /\ rl_wake' = [rl_wake EXCEPT ![c] = clock + duration]
    /\ rl_call' = [rl_call EXCEPT ![c] = [locals EXCEPT !.slept = locals.slept + 1]]
    /\ UNCHANGED rl_log

\* acquire() from its call to its first suspension or its return (lines 185-226)
Acquire(c) ==
    /\ c \in rl_callers
    /\ rl_pc[c] = "idle"
    /\ rl_budget > 0
    /\ rl_budget' = rl_budget - 1
    /\ LET elapsed == now - last_refill
           minute == RefillMinute(minute_bucket, rpm_limit, elapsed)
           hour == RefillHour(hour_bucket, rph_limit, elapsed)
           refilled_at == LastRefillAfter(last_refill, now)
           times == CleanOldRequests(request_times, now)
           multiplier == BackoffMultiplier(times)
           wait_time == WaitTime(minute, hour, now - refilled_at, multiplier)
           locals == CallLocals(now, multiplier, wait_time, minute, hour)
       IN  IF wait_time > 0
           THEN Suspend(c, "wait", minute, hour, times, refilled_at, now, wait_time, locals)
           ELSE IF BucketEmpty(minute, hour)
           THEN Suspend(c, "recheck", minute, hour, times, refilled_at, now,
                        RecheckSleep, locals)
           ELSE Grant(c, minute, hour, times, refilled_at, now, locals)
    /\ UNCHANGED <<now, rpm_limit, rph_limit, rl_callers, rl_ticks,
                   engine_vars, sm_vars, cb_rest, sm_last, grl_vars, wr_vars>>

\* asyncio.sleep returns in acquire(): after sleep(wait_time) the buckets are
\* refilled and looked at (lines 216-221), after sleep(1.0) they are not; the
\* clock is at the end of the sleep, or later when the loop was busy
SleepReturns(c) ==
    /\ c \in rl_callers
    /\ rl_pc[c] # "idle"
    /\ EarliestSleeper(c)
    /\ now' = Max(now, rl_wake[c])
    /\ LET woke == rl_pc[c] = "wait"
           elapsed == IF woke THEN now' - last_refill ELSE 0
           minute == RefillMinute(minute_bucket, rpm_limit, elapsed)
           hour == RefillHour(hour_bucket, rph_limit, elapsed)
           refilled_at == IF woke THEN LastRefillAfter(last_refill, now') ELSE last_refill
       IN  IF AfterSleep(rl_pc[c], minute, hour) = "recheck"
           THEN Suspend(c, "recheck", minute, hour, request_times, refilled_at, now',
                        RecheckSleep, rl_call[c])
           ELSE Grant(c, minute, hour, request_times, refilled_at, now', rl_call[c])
    /\ UNCHANGED <<rpm_limit, rph_limit, rl_callers, rl_budget, rl_ticks,
                   engine_vars, sm_vars, cb_rest, sm_last, grl_vars, wr_vars>>

\* time passes between the steps of acquire(): before a call, or while callers
\* sleep (a sleep returns at its deadline or later)
TimeSteps == {1, 60}

Elapse(d) ==
    /\ rl_ticks < MaxTicks
    /\ rl_ticks' = rl_ticks + 1
    /\ now' = now + d
    /\ UNCHANGED <<rpm_limit, rph_limit, minute_bucket, hour_bucket, last_refill,
                   request_times, rl_pc, rl_wake, rl_call, rl_log, rl_callers, rl_budget,
                   engine_vars, sm_vars, cb_rest, sm_last, grl_vars, wr_vars>>

----------------------------------------------------------------------------
(* GOBOTRateLimiter (gobot_rate_limiter.py) *)

\* the model's clock counts ticks of 0.1 s, the length of the polling sleep
TicksPerSecond == 10

\* bucket values are kept in ninths of a token: an hour bucket gains 25/9 of a
\* token per tick
GTokenUnit == 9

GRequestsPerMinute == 1200
GRequestsPerHour == 100000

\* max_wait of _wait_for_slot, in seconds
MaxWaitSeconds == 30

\* asyncio.sleep(0.1), in ticks
PollSleep == 1

\* the least wait_time, 1.0 s
LeastWaitSeconds == 1

\* RequestPriority values: CRITICAL, HIGH, LOW
Priorities == {1, 2, 4}

\* the requests, named by their request ids
Requests == 1..MaxRequests

\* status codes passed to handle_error: rate limited, server error, client error
StatusCodes == {429, 503, 404}

\* arithmetic on backoff_multiplier, a fraction <<numerator, denominator>>
RatLess(a, b) == a[1] * b[2] < b[1] * a[2]
RatMin(a, b) == IF RatLess(b, a) THEN b ELSE a
RatMax(a, b) == IF RatLess(a, b) THEN b ELSE a
RatTimes(a, num, den) == <<a[1] * num, a[2] * den>>

BackoffOne == <<1, 1>>
BackoffCap == <<10, 1>>

\* mutant of IncreaseBackoff: the cap is left out
IncreaseBackoffUncapped(b) == RatTimes(b, 3, 2)

\* _increase_backoff: min(10.0, backoff_multiplier * 1.5)
IncreaseBackoff(b) == RatMin(BackoffCap, RatTimes(b, 3, 2))

\* handle_error: the multiplier afterwards
BackoffAfterError(b, status_code) ==
    IF status_code = 429 THEN IncreaseBackoff(b)
    ELSE IF status_code >= 500 THEN IncreaseBackoff(b)
    ELSE BackoffOne

\* handle_success: the multiplier afterwards
BackoffAfterSuccess(b) ==
    IF RatLess(BackoffOne, b) THEN RatMax(BackoffOne, RatTimes(b, 9, 10)) ELSE b

\* _refill_buckets on the minute bucket, elapsed in ticks
GRefillMinute(bucket, elapsed) ==
    IF elapsed > 0
    THEN Min(GRequestsPerMinute * GTokenUnit,
             bucket + (elapsed * GRequestsPerMinute * GTokenUnit) \div (60 * TicksPerSecond))
    ELSE bucket

\* _refill_buckets on the hour bucket, elapsed in ticks
GRefillHour(bucket, elapsed) ==
    IF elapsed > 0
    THEN Min(GRequestsPerHour * GTokenUnit,
             bucket + (elapsed * GRequestsPerHour * GTokenUnit) \div (3600 * TicksPerSecond))
    ELSE bucket

\* mutant of SortByPriority: the sort is left out
SortByPriorityNot(queue) == queue

\* request_queue.sort(key=lambda x: x["priority"].value): a stable sort, here by
\* insertion of each element behind those that do not come after it
RECURSIVE SortByPriority(_)
SortByPriority(queue) ==
    IF queue = <<>> THEN <<>>
    ELSE LET front == SortByPriority(SubSeq(queue, 1, Len(queue) - 1))
             last == queue[Len(queue)]
             ahead == {k \in 1..Len(front) : front[k].priority <= last.priority}
             at == IF ahead = {} THEN 0 ELSE CHOOSE k \in ahead : \A m \in ahead : m <= k
         IN  SubSeq(front, 1, at) \o <<last>> \o SubSeq(front, at + 1, Len(front))

\* [r for r in self.request_queue if r["id"] != request_id]
RECURSIVE WithoutRequest(_, _)
WithoutRequest(queue, id) ==
    IF queue = <<>> THEN <<>>
    ELSE IF Head(queue).id = id THEN WithoutRequest(Tail(queue), id)
    ELSE <<Head(queue)>> \o WithoutRequest(Tail(queue), id)

\* the smallest integer not below num / den
CeilDiv(num, den) == (num + den - 1) \div den

\* wait_time of _wait_for_slot in ticks, rounded up to the tick at which the sleep
\* can have returned
GWaitTicks(minute, hour, since_refill, backoff) ==
    LET least == LeastWaitSeconds * TicksPerSecond
        for_minute == IF minute <= 0
                      THEN Max(least, 60 * TicksPerSecond - since_refill) ELSE least
        for_both == IF hour <= 0
                    THEN Max(for_minute, 3600 * TicksPerSecond - since_refill)
                    ELSE for_minute
    IN  CeilDiv(for_both * backoff[1], backoff[2])

\* the record of an approval
Approval(id, queue, minute, hour) ==
    [n |-> g_last.n + 1, id |-> id, queue |-> queue,
     minute_before |-> minute, hour_before |-> hour,
     minute_after |-> minute - GTokenUnit, hour_after |-> hour - GTokenUnit]

\* no approval yet
NoApproval ==
    [n |-> 0, id |-> 0, queue |-> <<>>, minute_before |-> 0, hour_before |-> 0,
     minute_after |-> 0, hour_after |-> 0]

\* one iteration of the while loop of _wait_for_slot(id), entered at g_now with
\* the given queue: refill, then approve, or sleep 0.1 s behind another request,
\* or sleep wait_time on an empty bucket
LoopBody(id, queue) ==
    LET elapsed == g_now - g_last_refill
        minute == GRefillMinute(g_minute, elapsed)
        hour == GRefillHour(g_hour, elapsed)
    IN  /\ g_last_refill' = g_now
        /\ IF queue = <<>> \/ queue[1].id # id
           THEN /\ g_minute' = minute
                /\ g_hour' = hour
                /\ g_queue' = queue
                /\ g_pc' = [g_pc EXCEPT ![id] = "sleeping"]
                /\ g_wake' = [g_wake EXCEPT ![id] = g_now + PollSleep]
                /\ g_last' = g_last
           ELSE IF minute > 0 /\ hour > 0
           THEN /\ g_minute' = minute - GTokenUnit
                /\ g_hour' = hour - GTokenUnit
                /\ g_queue' = WithoutRequest(queue, id)
                /\ g_pc' = [g_pc EXCEPT ![id] = "approved"]
                /\ g_wake' = g_wake
                /\ g_last' = Approval(id, queue, minute, hour)
           ELSE /\ g_minute' = minute
                /\ g_hour' = hour
                /\ g_queue' = queue
                /\ g_pc' = [g_pc EXCEPT ![id] = "sleeping"]
                /\ g_wake' = [g_wake EXCEPT ![id] = g_now + GWaitTicks(minute, hour, 0, g_backoff)]
                /\ g_last' = g_last

\* acquire(priority): the request is queued, the queue sorted, and
\* _wait_for_slot runs to its return or its first sleep
GAcquire(id, priority) ==
    /\ g_pc[id] = "idle"
    /\ \A other \in Requests : other < id => g_pc[other] # "idle"
    /\ g_start' = [g_start EXCEPT ![id] = g_now]
    /\ LoopBody(id, SortByPriority(Append(g_queue, [id |-> id, priority |-> priority])))
    /\ UNCHANGED <<g_now, g_backoff, g_ops, g_ticks,
                   engine_vars, sm_vars, cb_vars, rl_vars, sm_last, wr_vars>>

\* a sleep of _wait_for_slot(id) returns and max_wait has not passed: the loop
\* goes round
GSleepReturns(id) ==
    /\ g_pc[id] = "sleeping"
    /\ g_now >= g_wake[id]
    /\ g_now - g_start[id] < MaxWaitSeconds * TicksPerSecond
    /\ LoopBody(id, g_queue)
    /\ UNCHANGED <<g_now, g_backoff, g_start, g_ops, g_ticks,
                   engine_vars, sm_vars, cb_vars, rl_vars, sm_last, wr_vars>>

\* a sleep of _wait_for_slot(id) returns after max_wait: TimeoutError
GTimeout(id) ==
    /\ g_pc[id] = "sleeping"
    /\ g_now >= g_wake[id]
    /\ g_now - g_start[id] >= MaxWaitSeconds * TicksPerSecond
    /\ g_pc' = [g_pc EXCEPT ![id] = "timeout"]
    /\ UNCHANGED <<g_now, g_queue, g_minute, g_hour, g_last_refill, g_backoff, g_start,
                   g_wake, g_last, g_ops, g_ticks,
                   engine_vars, sm_vars, cb_vars, rl_vars, sm_last, wr_vars>>

\* handle_error(request_id, status_code, error_message)
HandleError(status_code) ==
    /\ g_ops < MaxBackoffOps
    /\ g_ops' = g_ops + 1
    /\ g_backoff' = BackoffAfterError(g_backoff, status_code)
    /\ UNCHANGED <<g_now, g_queue, g_minute, g_hour, g_last_refill, g_pc, g_start,
                   g_wake, g_last, g_ticks,
                   engine_vars, sm_vars, cb_vars, rl_vars, sm_last, wr_vars>>

\* handle_success(request_id)
HandleSuccess ==
    /\ g_ops < MaxBackoffOps
    /\ g_ops' = g_ops + 1
    /\ g_backoff' = BackoffAfterSuccess(g_backoff)
    /\ UNCHANGED <<g_now, g_queue, g_minute, g_hour, g_last_refill, g_pc, g_start,
                   g_wake, g_last, g_ticks,
                   engine_vars, sm_vars, cb_vars, rl_vars, sm_last, wr_vars>>

\* the time that passes between two steps: a tick, the 30 s of max_wait
GTimeSteps == {PollSleep, MaxWaitSeconds * TicksPerSecond}

GElapse(d) ==
    /\ g_ticks < MaxGTicks
    /\ g_ticks' = g_ticks + 1
    /\ g_now' = g_now + d
    /\ UNCHANGED <<g_queue, g_minute, g_hour, g_last_refill, g_backoff, g_pc, g_start,
                   g_wake, g_last, g_ops,
                   engine_vars, sm_vars, cb_vars, rl_vars, sm_last, wr_vars>>

----------------------------------------------------------------------------
(* StateManager driven by a caller of its methods *)

\* the patterns passed to add_pattern
Patterns == {"Use async/await for I/O", "Always validate input"}

\* the CycleResults passed to add_cycle_result
Results == {SuccessResult(n) : n \in 1..2} \cup {FailureResult(1, "idea")}

\* a progress.json an earlier run left: one cycle record, no patterns
EarlierProgress == ProgressDoc(<<SuccessResult(1)>>, <<>>)

\* a record whose output and metrics carry the completion signal
SignalledResult ==
    [cycle_id |-> 1,
     phases_completed |-> SubSeq(CyclePhase, 1, Len(CyclePhase) - 1),
     success |-> TRUE,
     output |-> "PASSED quality 9",
     learnings |-> <<>>]

\* a progress.json whose last record carries the completion signal
SignalledProgress == ProgressDoc(<<SignalledResult>>, <<>>)

\* _check_completion_signal() called on the engine before run()
CheckCompletion ==
    /\ pc = "init"
    /\ signal_log = <<>>
    /\ signal_log' = <<[cycle |-> 0,
                        value |-> CheckCompletionSignal(cycles_completed, progress_file)]>>
    /\ UNCHANGED <<max_iterations, i, current_cycle, cycles_completed, cycle_ret, ret,
                   handlers, predicate, request_count, cycle_log, handler_log,
                   acquire_log, sleeps, completed0, run_arg, pc, sm_vars, cb_vars,
                   rl_vars, grl_vars, wr_vars, sm_last>>

\* set_current_branch(b)
SetBranch(b) ==
    /\ sm_last.n < MaxOps
    /\ branch_file' = SetCurrentBranch(b)
    /\ sm_last' = SMRecord("set", b, 0, "returned", progress_file.kind, b, AbsentFile)
    /\ UNCHANGED <<progress_file, prd_file, archive, today, engine_vars, cb_vars, rl_vars, grl_vars, wr_vars>>

\* mutant of ArchiveCurrentState: the progress document is moved, not copied
ArchiveCurrentStateMoving(b) ==
    /\ sm_last.n < MaxOps
    /\ archive' = ArchiveAfter(archive, branch_file, progress_file, prd_file, today, b)
    /\ branch_file' = BranchAfterArchive(branch_file, progress_file, b)
    /\ progress_file' = IF ShouldArchive(branch_file, b)
                           /\ ~ArchiveRaises(branch_file, progress_file, b)
                        THEN AbsentFile ELSE progress_file
    /\ sm_last' = SMRecord("archive", b, 0,
                           IF ArchiveRaises(branch_file, progress_file, b)
                           THEN "raised" ELSE "returned",
                           progress_file.kind,
                           IF ShouldArchive(branch_file, b)
                              /\ ~ArchiveRaises(branch_file, progress_file, b)
                           THEN b ELSE NoBranch,
                           AbsentFile)
    /\ UNCHANGED <<prd_file, today, engine_vars, cb_vars, rl_vars, grl_vars, wr_vars>>

\* archive_current_state(b)
ArchiveCurrentState(b) ==
    /\ sm_last.n < MaxOps
    /\ archive' = ArchiveAfter(archive, branch_file, progress_file, prd_file, today, b)
    /\ branch_file' = BranchAfterArchive(branch_file, progress_file, b)
    /\ sm_last' = SMRecord("archive", b, 0,
                           IF ArchiveRaises(branch_file, progress_file, b)
                           THEN "raised" ELSE "returned",
                           progress_file.kind,
                           IF ShouldArchive(branch_file, b)
                              /\ ~ArchiveRaises(branch_file, progress_file, b)
                           THEN b ELSE NoBranch,
                           AbsentFile)
    /\ UNCHANGED <<progress_file, prd_file, today, engine_vars, cb_vars, rl_vars, grl_vars, wr_vars>>

\* add_pattern(p)
AddPatternCall(p) ==
    /\ sm_last.n < MaxOps
    /\ progress_file' = AddPattern(progress_file, p)
    /\ sm_last' = SMRecord("add_pattern", p, 0, "returned", progress_file.kind,
                           NoBranch, AbsentFile)
    /\ UNCHANGED <<branch_file, prd_file, archive, today, engine_vars, cb_vars, rl_vars, grl_vars, wr_vars>>

\* add_cycle_result(r)
AddCycleResultCall(r) ==
    /\ sm_last.n < MaxOps
    /\ progress_file' = AddCycleResult(progress_file, r)
    /\ sm_last' = SMRecord("add_cycle_result", "", r.cycle_id, "returned",
                           progress_file.kind, NoBranch, AbsentFile)
    /\ UNCHANGED <<branch_file, prd_file, archive, today, engine_vars, cb_vars, rl_vars, grl_vars, wr_vars>>

\* load_progress()
LoadProgressCall ==
    /\ sm_last.n < MaxOps
    /\ sm_last' = SMRecord("load", "", 0, "returned", progress_file.kind,
                           NoBranch, LoadProgress(progress_file))
    /\ UNCHANGED <<sm_vars, engine_vars, cb_vars, rl_vars, grl_vars, wr_vars>>

\* midnight passes: strftime("%Y-%m-%d") gives the next date
NextDay ==
    /\ today < MaxDay
    /\ today' = today + 1
    /\ UNCHANGED <<branch_file, progress_file, prd_file, archive, sm_last,
                   engine_vars, cb_vars, rl_vars, grl_vars, wr_vars>>

----------------------------------------------------------------------------
(* Several StateManagers writing one progress.json *)

Writers == {1, 2}

\* what a writer adds: a CycleResult through add_cycle_result or a string
\* through add_pattern; no two calls add the same thing
ItemsOf(w) ==
    IF w = 1
    THEN {[kind |-> "cycle", value |-> SuccessResult(1)],
          [kind |-> "cycle", value |-> SuccessResult(2)],
          [kind |-> "pattern", value |-> "Use async/await for I/O"]}
    ELSE {[kind |-> "cycle", value |-> FailureResult(1, "idea")],
          [kind |-> "cycle", value |-> FailureResult(2, "idea")],
          [kind |-> "pattern", value |-> "Always validate input"]}

NoItem == [kind |-> "none", value |-> ""]

\* the document holds the item
Holds(doc, item) ==
    IF item.kind = "pattern"
    THEN \E k \in 1..Len(doc.patterns) : doc.patterns[k] = item.value
    ELSE \E k \in 1..Len(doc.cycles) : doc.cycles[k] = item.value

\* mutant of WithItem: the list is replaced by the item
WithItemAlone(doc, item) ==
    IF item.kind = "pattern"
    THEN [doc EXCEPT !.patterns = <<item.value>>]
    ELSE [doc EXCEPT !.cycles = <<item.value>>]

\* progress["patterns"].append(pattern) / progress["cycles"].append({...}) on the
\* loaded document
WithItem(doc, item) ==
    IF item.kind = "pattern"
    THEN [doc EXCEPT !.patterns = Append(@, item.value)]
    ELSE [doc EXCEPT !.cycles = Append(@, item.value)]

\* the calls begun so far
WritesBegun == Cardinality(wr_added) + Cardinality({w \in Writers : wr_pc[w] = "loaded"})

\* a writer enters add_pattern or add_cycle_result and load_progress() returns
WriterLoads(w, item) ==
    /\ w \in wr_set
    /\ wr_pc[w] = "idle"
    /\ item \notin wr_added
    /\ WritesBegun < MaxWrites
    /\ wr_pc' = [wr_pc EXCEPT ![w] = "loaded"]
    /\ wr_local' = [wr_local EXCEPT ![w] = LoadProgress(progress_file)]
    /\ wr_item' = [wr_item EXCEPT ![w] = item]
    /\ UNCHANGED <<wr_set, wr_added, sm_vars, sm_last, engine_vars, cb_vars, rl_vars, grl_vars>>

\* the writer mutates its copy and save_progress() writes it; add_pattern saves
\* nothing when its copy holds the pattern
WriterSaves(w) ==
    /\ wr_pc[w] = "loaded"
    /\ progress_file' =
           IF wr_item[w].kind = "pattern" /\ Holds(wr_local[w], wr_item[w])
           THEN progress_file
           ELSE SaveProgress(WithItem(wr_local[w], wr_item[w]))
    /\ wr_added' = wr_added \cup {wr_item[w]}
    /\ wr_pc' = [wr_pc EXCEPT ![w] = "idle"]
    /\ wr_local' = [wr_local EXCEPT ![w] = AbsentFile]
    /\ wr_item' = [wr_item EXCEPT ![w] = NoItem]
    /\ UNCHANGED <<wr_set, branch_file, prd_file, archive, today, sm_last, engine_vars,
                   cb_vars, rl_vars, grl_vars>>

----------------------------------------------------------------------------
(* Specifications *)

\* CircuitBreaker.__init__
InitBreaker(threshold, timeout) ==
    /\ cb_state = "CLOSED"
    /\ failure_count = 0
    /\ last_failure_time = NoTime
    /\ failure_threshold = threshold
    /\ recovery_timeout = timeout
    /\ now = 0
    /\ cb_pc = "idle"
    /\ cb_log = <<>>

\* ClaudeOrchestrator.__init__ on a state directory
InitEngine ==
    /\ pc = "init"
    /\ max_iterations = 0
    /\ i = 0
    /\ current_cycle = NoCycle
    /\ cycles_completed \in 0..MaxPrior
    /\ completed0 = cycles_completed
    /\ cycle_ret = "none"
    /\ ret = "none"
    /\ handlers \in {"default", "stub"}
    /\ predicate \in {"default", "override"}
    /\ request_count = 0
    /\ cycle_log = <<>>
    /\ handler_log = <<>>
    /\ acquire_log = <<>>
    /\ signal_log = <<>>
    /\ sleeps = 0
    /\ run_arg = 0

\* the state directory the engine is constructed on
InitFiles ==
    /\ branch_file \in {AbsentFile, CorruptFile} \cup {BranchDoc(b) : b \in Branches}
    /\ progress_file \in {AbsentFile, CorruptFile, ProgressDoc(<<>>, <<>>)}
    /\ prd_file \in {"absent", "present"}
    /\ archive = {}
    /\ today = 1
    /\ sm_last = NoSMCall

\* RateLimiter.__init__, and the tasks that are going to call acquire()
InitLimiter(callers, rpm, rph, budget) ==
    /\ rpm_limit = rpm
    /\ rph_limit = rph
    /\ minute_bucket = rpm * TokenUnit
    /\ hour_bucket = rph * TokenUnit
    /\ last_refill = 0
    /\ request_times = <<>>
    /\ rl_pc = [c \in Callers |-> "idle"]
    /\ rl_wake = [c \in Callers |-> 0]
    /\ rl_call = [c \in Callers |-> NoCall]
    /\ rl_log = <<>>
    /\ rl_callers = callers
    /\ rl_budget = budget
    /\ rl_ticks = 0

\* GOBOTRateLimiter.__init__, with the minute bucket and the multiplier as given
InitGobot(minute, backoff) ==
    /\ g_now = 0
    /\ g_queue = <<>>
    /\ g_minute = minute
    /\ g_hour = GRequestsPerHour * GTokenUnit
    /\ g_last_refill = 0
    /\ g_backoff = backoff
    /\ g_pc = [r \in Requests |-> "idle"]
    /\ g_start = [r \in Requests |-> 0]
    /\ g_wake = [r \in Requests |-> 0]
    /\ g_last = NoApproval
    /\ g_ops = 0
    /\ g_ticks = 0

\* the StateManagers that write to the state directory, none inside a call
InitWriters(writers) ==
    /\ wr_set = writers
    /\ wr_pc = [w \in Writers |-> "idle"]
    /\ wr_local = [w \in Writers |-> AbsentFile]
    /\ wr_item = [w \in Writers |-> NoItem]
    /\ wr_added = {}

\* a GOBOTRateLimiter as constructed and no writer besides the engine
InitOthers ==
    /\ InitGobot(GRequestsPerMinute * GTokenUnit, BackoffOne)
    /\ InitWriters({})

Init ==
    /\ InitOthers
    /\ InitEngine
    /\ InitFiles
    /\ InitBreaker(DefaultFailureThreshold, DefaultRecoveryTimeout)
    /\ InitLimiter({}, DefaultRequestsPerMinute, DefaultRequestsPerHour, 0)

Next ==
    \/ \E arg \in 0..MaxIterations, b \in Branches : Run(arg, b)
    \/ StartCycle
    \/ Exhausted
    \/ AcquireReturns
    \/ HandlerReturns
    \/ CycleSucceeds
    \/ HandlerRaises
    \/ SleepDone

\* the engine through one run()
Spec == Init /\ [][Next]_vars

InitCB ==
    /\ InitOthers
    /\ InitEngine
    /\ cycles_completed = 0
    /\ handlers = "default"
    /\ predicate = "default"
    /\ branch_file = AbsentFile
    /\ progress_file = AbsentFile
    /\ prd_file = "absent"
    /\ archive = {}
    /\ today = 1
    /\ sm_last = NoSMCall
    /\ \E k \in 1..MaxThreshold, t \in 0..MaxTimeout : InitBreaker(k, t)
    /\ InitLimiter({}, DefaultRequestsPerMinute, DefaultRequestsPerHour, 0)

NextCB ==
    \/ CallRejected
    \/ CallEnter
    \/ CallCoroutine
    \/ WorkReturns
    \/ WorkRaises
    \/ Tick

\* a circuit breaker and its caller
SpecCB == InitCB /\ [][NextCB]_vars

\* a limiter nobody else uses: the engine and the breaker stay as constructed
InitRest ==
    /\ InitEngine
    /\ cycles_completed = 0
    /\ handlers = "default"
    /\ predicate = "default"
    /\ branch_file = AbsentFile
    /\ progress_file = AbsentFile
    /\ prd_file = "absent"
    /\ archive = {}
    /\ today = 1
    /\ sm_last = NoSMCall
    /\ InitBreaker(DefaultFailureThreshold, DefaultRecoveryTimeout)

\* one limiter shared by the tasks of Callers
InitShared ==
    /\ InitOthers
    /\ InitRest
    /\ \E rpm \in 1..MaxSharedRpm, rph \in (1..MaxSharedRph) \cup {DefaultRequestsPerHour} :
          InitLimiter(Callers, rpm, rph, MaxAcquires)

\* one limiter with one caller and an hourly limit that does not bind
InitSingle ==
    /\ InitOthers
    /\ InitRest
    /\ \E rpm \in 1..MaxRpm : InitLimiter({1}, rpm, DefaultRequestsPerHour, rpm + 1)

InitRL == InitShared \/ InitSingle

NextRL ==
    \/ \E c \in Callers : Acquire(c)
    \/ \E c \in Callers : SleepReturns(c)
    \/ \E d \in TimeSteps : Elapse(d)

\* a RateLimiter and the callers of its acquire()
SpecRL == InitRL /\ [][NextRL]_vars

\* the state directory a StateManager is constructed on: what earlier processes
\* left there
InitDisk ==
    /\ branch_file \in {AbsentFile, CorruptFile} \cup {BranchDoc(b) : b \in Branches}
    /\ progress_file \in {AbsentFile, CorruptFile, UndecodableFile,
                          ProgressDoc(<<>>, <<>>), EarlierProgress, SignalledProgress}
    /\ prd_file \in {"absent", "present", "present-crlf"}
    /\ archive = {}
    /\ today = 1
    /\ sm_last = NoSMCall

InitSM ==
    /\ InitOthers
    /\ InitEngine
    /\ cycles_completed = 0
    /\ handlers = "default"
    /\ predicate = "default"
    /\ InitDisk
    /\ InitBreaker(DefaultFailureThreshold, DefaultRecoveryTimeout)
    /\ InitLimiter({}, DefaultRequestsPerMinute, DefaultRequestsPerHour, 0)

NextSM ==
    \/ \E b \in Branches : SetBranch(b)
    \/ \E b \in Branches : ArchiveCurrentState(b)
    \/ \E p \in Patterns : AddPatternCall(p)
    \/ \E r \in Results : AddCycleResultCall(r)
    \/ LoadProgressCall
    \/ NextDay
    \/ \E b \in Branches : sm_last.n < MaxOps /\ Run(1, b)

\* a StateManager and the callers of its methods, run() among them
SpecSM == InitSM /\ [][NextSM]_vars

\* an engine constructed on a state directory of earlier runs
InitOnDisk ==
    /\ InitOthers
    /\ InitEngine
    /\ predicate = "default"
    /\ InitDisk
    /\ prd_file = "present"
    /\ InitBreaker(DefaultFailureThreshold, DefaultRecoveryTimeout)
    /\ InitLimiter({}, DefaultRequestsPerMinute, DefaultRequestsPerHour, 0)

NextOnDisk ==
    \/ CheckCompletion
    \/ \E arg \in 0..MaxDiskIterations, b \in Branches : Run(arg, b)
    \/ StartCycle
    \/ Exhausted
    \/ AcquireReturns
    \/ HandlerReturns
    \/ CycleSucceeds
    \/ HandlerRaises
    \/ SleepDone

\* the engine through one run() on such a directory
SpecOnDisk == InitOnDisk /\ [][NextOnDisk]_vars

\* the minute bucket a burst of earlier approvals has left: full, a fraction
\* of a token, none
BurstLeft == {GRequestsPerMinute * GTokenUnit, 5, 0}

\* the multiplier earlier errors have left: none, or five 429s in a row
ErrorsLeft == {BackoffOne, <<243, 32>>}

InitGobotLimiter ==
    /\ InitRest
    /\ InitLimiter({}, DefaultRequestsPerMinute, DefaultRequestsPerHour, 0)
    /\ InitWriters({})
    /\ \E minute \in BurstLeft, backoff \in ErrorsLeft : InitGobot(minute, backoff)

NextGobot ==
    \/ \E id \in Requests, priority \in Priorities : GAcquire(id, priority)
    \/ \E id \in Requests : GSleepReturns(id)
    \/ \E id \in Requests : GTimeout(id)
    \/ \E status_code \in StatusCodes : HandleError(status_code)
    \/ HandleSuccess
    \/ \E d \in GTimeSteps : GElapse(d)

\* a GOBOTRateLimiter, the tasks inside its acquire() and the callers of
\* handle_error / handle_success
SpecGobot == InitGobotLimiter /\ [][NextGobot]_vars

InitWriting ==
    /\ InitRest
    /\ InitLimiter({}, DefaultRequestsPerMinute, DefaultRequestsPerHour, 0)
    /\ InitGobot(GRequestsPerMinute * GTokenUnit, BackoffOne)
    /\ \E writers \in {{1}, {1, 2}} : InitWriters(writers)

NextWriting ==
    \/ \E w \in Writers : \E item \in ItemsOf(w) : WriterLoads(w, item)
    \/ \E w \in Writers : WriterSaves(w)

\* one or two StateManagers adding to the progress.json of one state directory
SpecWriters == InitWriting /\ [][NextWriting]_vars

\* the same with asyncio's event loop running: a sleep that has been started
\* returns
SpecRLFair ==
    /\ InitShared
    /\ [][NextRL]_vars
    /\ \A c \in Callers : WF_vars(SleepReturns(c))

----------------------------------------------------------------------------
(* Properties of the engine, checked under Spec *)

\* the cycle records the progress document holds
Persisted == LoadProgress(progress_file).cycles

\* the records persisted for cycle c
RecordsOf(c) == {k \in 1..Len(Persisted) : Persisted[k].cycle_id = c}

\* the handler invocations of cycle c, as positions of handler_log
CallsOf(c) == {k \in 1..Len(handler_log) : handler_log[k].cycle = c}

\* every one of the five handlers of cycle c was invoked and returned
AllHandlersReturned(c) ==
    /\ Cardinality(CallsOf(c)) = 5
    /\ \A k \in CallsOf(c) : handler_log[k].outcome = "returned"

\* a handler of cycle c raised
SomeHandlerRaised(c) == \E k \in CallsOf(c) : handler_log[k].outcome = "raised"

\* the completion predicate never returned true
NeverSignalled == \A k \in 1..Len(signal_log) : ~signal_log[k].value

\* C1: with a completion predicate that is always false, run(n) for n >= 1 returns
\* false after exactly n invocations of _run_cycle, numbered 1..n in increasing
\* order; when every handler succeeded, cycles_completed has grown by exactly n.
C1_MaxIterationsExhausted ==
    (pc = "done" /\ run_arg >= 1 /\ NeverSignalled) =>
        /\ ret = "false"
        /\ cycle_log = [k \in 1..run_arg |-> k]
        /\ (\A c \in 1..run_arg : AllHandlersReturned(c)) =>
               cycles_completed = completed0 + run_arg

C1_Witness ==
    /\ pc = "done"
    /\ run_arg = 2
    /\ ret = "false"
    /\ cycle_log = <<1, 2>>
    /\ Len(signal_log) = 2
    /\ NeverSignalled
    /\ cycles_completed = completed0 + 2

\* C2: run() returns true as soon as a cycle signals completion: no further cycle is
\* started and no inter-iteration delay follows that cycle; when the predicate is true
\* after the 1st cycle, run() returns true after exactly 1 invocation of _run_cycle.
C2_ReturnsOnCompletion ==
    /\ cycle_ret = "true" =>
          /\ pc = "done"
          /\ ret = "true"
          /\ cycle_log = [k \in 1..current_cycle.cycle_id |-> k]
          /\ sleeps = current_cycle.cycle_id - 1
    /\ (\E k \in 1..Len(signal_log) : signal_log[k].cycle = 1 /\ signal_log[k].value) =>
          /\ pc = "done"
          /\ ret = "true"
          /\ cycle_log = <<1>>
          /\ sleeps = 0

C2_Witness ==
    /\ pc = "done"
    /\ ret = "true"
    /\ run_arg = 2
    /\ cycle_log = <<1>>
    /\ signal_log = <<[cycle |-> 1, value |-> TRUE]>>
    /\ sleeps = 0

\* C3: a cycle whose five handlers all succeed persists exactly one CycleResult, with
\* success = true and phases_completed = [data_scan, idea, code_edit, backtest, report];
\* the CycleState ends with success = true and exactly 5 phase_results, and
\* cycles_completed is incremented by 1 for it.
C3_SuccessfulCycle ==
    /\ \A c \in 1..Len(cycle_log) :
          AllHandlersReturned(c) =>
              /\ Cardinality(RecordsOf(c)) = 1
              /\ \A k \in RecordsOf(c) :
                    /\ Persisted[k].success = TRUE
                    /\ Persisted[k].phases_completed =
                           <<"data_scan", "idea", "code_edit", "backtest", "report">>
              /\ current_cycle.cycle_id = c =>
                    /\ current_cycle.success = TRUE
                    /\ current_cycle.ended
                    /\ Len(current_cycle.phase_results) = 5
    /\ cycles_completed =
           completed0 + Cardinality({c \in 1..Len(cycle_log) : AllHandlersReturned(c)})

C3_Witness ==
    /\ AllHandlersReturned(1)
    /\ current_cycle.cycle_id = 1
    /\ current_cycle.success
    /\ Len(Persisted) = 1
    /\ Persisted[1].success
    /\ Len(Persisted[1].phases_completed) = 5
    /\ cycles_completed = completed0 + 1

\* C4: when a phase handler raises (at any phase position), _run_cycle does not
\* propagate the exception: it returns false and persists exactly one CycleResult, with
\* success = false, phases_completed empty and a learning naming the phase that failed.
C4_FailedCycle ==
    \A h \in 1..Len(handler_log) :
        handler_log[h].outcome = "raised" =>
            /\ Cardinality(RecordsOf(handler_log[h].cycle)) = 1
            /\ \A k \in RecordsOf(handler_log[h].cycle) :
                  /\ Persisted[k].success = FALSE
                  /\ Persisted[k].phases_completed = <<>>
                  /\ Persisted[k].learnings =
                         <<[kind |-> "error", phase |-> handler_log[h].phase]>>
            /\ current_cycle.cycle_id = handler_log[h].cycle =>
                  /\ cycle_ret = "false"
                  /\ current_cycle.ended
                  /\ current_cycle.success = FALSE
                  /\ current_cycle.error_message = HandlerError
                  /\ pc \in {"sleep", "loop", "done"}

C4_Witness ==
    /\ Len(handler_log) = 3
    /\ handler_log[3].phase = "code_edit"
    /\ handler_log[3].outcome = "raised"
    /\ cycle_ret = "false"
    /\ Len(Persisted) = 1
    /\ Persisted[1].success = FALSE
    /\ Persisted[1].learnings = <<[kind |-> "error", phase |-> "code_edit"]>>

\* C5: a handler failure fails the whole cycle: no handler of a later phase of that
\* cycle is invoked, the failed phase is not retried, cycles_completed is not
\* incremented for it, and run() goes on to the next cycle number after the delay
\* (the run ends with false only once max_iterations cycles were run).
C5_CycleGranularity ==
    /\ \A h \in 1..Len(handler_log) :
          handler_log[h].outcome = "raised" =>
              /\ \A k \in CallsOf(handler_log[h].cycle) : k <= h
              /\ \A k \in CallsOf(handler_log[h].cycle) :
                    k # h => handler_log[k].phase # handler_log[h].phase
    /\ cycles_completed =
           completed0 + Cardinality({c \in 1..Len(cycle_log) : ~SomeHandlerRaised(c)
                                                              /\ AllHandlersReturned(c)})
    /\ \A c \in 1..Len(cycle_log) : SomeHandlerRaised(c) => ~AllHandlersReturned(c)
    /\ pc \in {"acquire", "handler"} =>
          /\ cycle_log = [k \in 1..current_cycle.cycle_id |-> k]
          /\ sleeps = current_cycle.cycle_id - 1
    /\ (pc = "done" /\ ret = "false") => Len(cycle_log) = max_iterations

C5_Witness ==
    /\ SomeHandlerRaised(1)
    /\ pc = "handler"
    /\ current_cycle.cycle_id = 2
    /\ sleeps = 1
    /\ cycles_completed = completed0

\* the phases before p in the fixed order
PhasesBefore(p) ==
    LET order == <<"data_scan", "idea", "code_edit", "backtest", "report">>
    IN  SubSeq(order, 1, (CHOOSE k \in 1..5 : order[k] = p) - 1)

\* C6: within a cycle the phases run one at a time in the order data_scan, idea,
\* code_edit, backtest, report (complete is never executed); a handler is invoked only
\* after acquire() returned for its phase, and at its invocation phase_results holds
\* exactly the phases before it: results are written once and never overwritten.
C6_SequentialPhases ==
    /\ Len(acquire_log) = Len(handler_log)
    /\ request_count = Len(handler_log)
    /\ \A h \in 1..Len(handler_log) :
          /\ handler_log[h].phase \in {"data_scan", "idea", "code_edit", "backtest", "report"}
          /\ acquire_log[h] = <<handler_log[h].cycle, handler_log[h].phase>>
          /\ handler_log[h].seen = PhasesBefore(handler_log[h].phase)
          /\ handler_log[h].outcome = "running" => (h = Len(handler_log) /\ pc = "handler")
          /\ (h > 1 /\ handler_log[h - 1].cycle = handler_log[h].cycle) =>
                 /\ handler_log[h - 1].outcome = "returned"
                 /\ PhasesBefore(handler_log[h].phase) =
                        Append(PhasesBefore(handler_log[h - 1].phase), handler_log[h - 1].phase)
          /\ (h = 1 \/ handler_log[h - 1].cycle # handler_log[h].cycle) =>
                 handler_log[h].phase = "data_scan"
    /\ pc = "handler" =>
          current_cycle.phase_results = PhasesBefore(current_cycle.current_phase)

C6_Witness ==
    /\ pc = "handler"
    /\ current_cycle.current_phase = "report"
    /\ current_cycle.phase_results = <<"data_scan", "idea", "code_edit", "backtest">>
    /\ Len(acquire_log) = 5

----------------------------------------------------------------------------
(* Properties of the circuit breaker, checked under SpecCB *)

\* the latest call
LastCall == cb_log[Len(cb_log)]

\* the latest call after the step
LastCallNext == cb_log'[Len(cb_log')]

\* the step makes a call
CallMade == Len(cb_log') = Len(cb_log) + 1

\* the step makes a call that is rejected without running func and changes nothing
CallFailsFast ==
    /\ LastCallNext.outcome = "rejected"
    /\ LastCallNext.executed = FALSE
    /\ LastCallNext.error = BreakerOpenError
    /\ cb_pc' = "idle"
    /\ UNCHANGED <<cb_state, failure_count, last_failure_time>>

\* the record of calls ends with exactly k failed calls made from a fresh or just
\* reset breaker
TrailingFailures(k) ==
    /\ Len(cb_log) >= k
    /\ \A j \in (Len(cb_log) - k + 1)..Len(cb_log) : cb_log[j].outcome = "raised"
    /\ Len(cb_log) > k => cb_log[Len(cb_log) - k].outcome = "returned"

\* C7: for every failure_threshold k >= 1, starting CLOSED: after exactly k consecutive
\* failed calls the state is OPEN with failure_count = k, and the (k+1)-th call made
\* before the recovery timeout elapses fails at once without executing the work.
C7_OpensAtThreshold ==
    /\ []((cb_pc = "idle" /\ TrailingFailures(failure_threshold)) =>
             (cb_state = "OPEN" /\ failure_count = failure_threshold))
    /\ [][(/\ cb_pc = "idle"
           /\ TrailingFailures(failure_threshold)
           /\ now - last_failure_time < recovery_timeout
           /\ CallMade) => CallFailsFast]_vars

C7_Witness ==
    /\ failure_threshold = 2
    /\ Len(cb_log) = 3
    /\ cb_log[1].outcome = "raised" /\ cb_log[1].executed
    /\ cb_log[2].outcome = "raised" /\ cb_log[2].executed
    /\ cb_log[3].outcome = "rejected" /\ ~cb_log[3].executed
    /\ cb_state = "OPEN"
    /\ failure_count = 2

\* C8: for every recovery_timeout t, once OPEN: a call made less than t seconds after
\* the last failure fails fast; a call made at or after t seconds is let through as a
\* trial, the state being HALF_OPEN while the work runs; a trial that succeeds leaves
\* the breaker CLOSED with failure_count = 0.
C8_RecoveryTrial ==
    /\ []((cb_pc = "running" /\ LastCall.from = "OPEN") => cb_state = "HALF_OPEN")
    /\ [][(cb_pc = "idle" /\ cb_state = "OPEN" /\ CallMade) =>
             IF now - last_failure_time < recovery_timeout
             THEN CallFailsFast
             ELSE /\ LastCallNext.outcome # "rejected"
                  /\ cb_pc' = "running" => (cb_state' = "HALF_OPEN" /\ LastCallNext.executed)]_vars
    /\ [][(/\ cb_pc = "running"
           /\ LastCall.from = "OPEN"
           /\ cb_pc' = "idle"
           /\ LastCallNext.outcome = "returned") =>
             (cb_state' = "CLOSED" /\ failure_count' = 0)]_vars

C8_Witness ==
    /\ recovery_timeout >= 1
    /\ cb_pc = "idle"
    /\ Len(cb_log) >= 2
    /\ LastCall.from = "OPEN"
    /\ LastCall.outcome = "returned"
    /\ cb_state = "CLOSED"
    /\ failure_count = 0

\* C9: when the HALF_OPEN trial fails the breaker is OPEN again and the recovery
\* timer restarts at that failure: a call made less than recovery_timeout seconds
\* after the trial's failure fails fast without executing the work.
C9_FailedTrialReopens ==
    /\ [][(/\ cb_log' # cb_log
           /\ LastCallNext.from = "OPEN"
           /\ LastCallNext.outcome = "raised") =>
             (cb_state' = "OPEN" /\ last_failure_time' = now)]_vars
    /\ [][(/\ cb_pc = "idle"
           /\ Len(cb_log) > 0
           /\ LastCall.from = "OPEN"
           /\ LastCall.outcome = "raised"
           /\ now - last_failure_time < recovery_timeout
           /\ CallMade) => CallFailsFast]_vars

C9_Witness ==
    /\ recovery_timeout >= 1
    /\ Len(cb_log) >= 3
    /\ cb_log[Len(cb_log) - 1].from = "OPEN"
    /\ cb_log[Len(cb_log) - 1].outcome = "raised"
    /\ cb_log[Len(cb_log) - 1].executed
    /\ LastCall.outcome = "rejected"
    /\ cb_state = "OPEN"

\* no failure_threshold consecutive calls of the record failed
ShortFailureRuns ==
    ~\E a \in 1..Len(cb_log) :
        /\ a + failure_threshold - 1 <= Len(cb_log)
        /\ \A j \in a..(a + failure_threshold - 1) : cb_log[j].outcome = "raised"

\* C10: a call whose work raises increments failure_count, sets last_failure_time and
\* raises the work's exception; a call whose work returns resets failure_count to 0
\* and forces CLOSED.  Hence while every run of consecutive failures is shorter than
\* failure_threshold the breaker never leaves CLOSED and rejects no call.
C10_ConsecutiveFailuresOnly ==
    /\ [][(cb_pc = "running" /\ cb_pc' = "idle") =>
             \/ /\ LastCallNext.outcome = "raised"
                /\ LastCallNext.work_error \in WorkErrors
                /\ LastCallNext.error = LastCallNext.work_error
                /\ failure_count' = failure_count + 1
                /\ last_failure_time' = now
             \/ /\ LastCallNext.outcome = "returned"
                /\ LastCallNext.error = "none"
                /\ failure_count' = 0
                /\ cb_state' = "CLOSED"]_vars
    /\ [](ShortFailureRuns =>
             /\ cb_state = "CLOSED"
             /\ \A j \in 1..Len(cb_log) :
                   cb_log[j].from = "CLOSED" /\ cb_log[j].outcome # "rejected")

C10_Witness ==
    /\ failure_threshold = 2
    /\ Len(cb_log) = 4
    /\ cb_log[1].outcome = "raised"
    /\ cb_log[2].outcome = "returned"
    /\ cb_log[3].outcome = "raised"
    /\ cb_log[4].outcome = "returned"
    /\ cb_state = "CLOSED"
    /\ failure_count = 0

----------------------------------------------------------------------------
(* The engine and its circuit breaker, checked under Spec *)

\* every handler cycle c invoked raised (the cycle ends at the first exception)
EveryHandlerRaised(c) ==
    /\ CallsOf(c) # {}
    /\ \A k \in CallsOf(c) : handler_log[k].outcome = "raised"

\* C11: the cycle engine routes phase execution through its circuit breaker: once
\* a _run_cycle in which every phase handler raises has ended,
\* circuit_breaker.state is OPEN.
C11_BreakerOpensOnFailingCycle ==
    \A c \in 1..Len(cycle_log) : EveryHandlerRaised(c) => cb_state = "OPEN"

----------------------------------------------------------------------------
(* Properties of the rate limiter, checked under SpecRL and SpecRLFair *)

\* the acquire() calls that have returned, as positions of rl_log
Grants == 1..Len(rl_log)

\* C12: acquire() returns only once a slot is available under both windows: at
\* the moment of consumption minute_bucket >= 1 and hour_bucket >= 1, the grant
\* lowers each bucket by exactly one token and appends exactly one timestamp to
\* the request history; no request is granted by clamping an empty bucket at 0.
C12_GrantNeedsBothTokens ==
    \A k \in Grants :
        /\ rl_log[k].minute_before >= TokenUnit
        /\ rl_log[k].hour_before >= TokenUnit
        /\ rl_log[k].minute_after = rl_log[k].minute_before - TokenUnit
        /\ rl_log[k].hour_after = rl_log[k].hour_before - TokenUnit
        /\ rl_log[k].recorded = 1

\* C15: concurrent callers of acquire() serialize bucket mutation: on a limiter
\* shared by two or more callers, whatever the interleaving at the suspension
\* points, no caller consumes a token from a bucket holding less than one, so
\* the grants never outnumber the tokens the windows made available: the initial
\* rpm_limit (rph_limit) plus what the elapsed time refills.
C15_GrantsWithinAvailableTokens ==
    Cardinality(rl_callers) >= 2 =>
        /\ Len(rl_log) * TokenUnit <=
               rpm_limit * TokenUnit + (now * rpm_limit * TokenUnit) \div MinuteWindow
        /\ Len(rl_log) * TokenUnit <=
               rph_limit * TokenUnit + (now * rph_limit * TokenUnit) \div HourWindow

\* the acquire() calls made so far
CallsMade == MaxAcquires - rl_budget

\* C13: acquire() never fails and always returns: with limits >= 1 and a running
\* event loop, every call of acquire() ends with a grant after at most two
\* suspensions, whatever the bucket state it finds; a call is never dropped.
C13_AcquireTerminates ==
    /\ \A c \in Callers : (rl_pc[c] # "idle") ~> (rl_pc[c] = "idle")
    /\ [](\A c \in Callers : rl_call[c].slept <= 2)
    /\ [](Len(rl_log) + Cardinality(Sleeping) = CallsMade)

C13_Witness ==
    \E k \in Grants :
        /\ rl_log[k].slept = 2
        /\ rl_log[k].wait = HourWindow
        /\ rl_log[k].granted_at = rl_log[k].called_at + HourWindow + RecheckSleep

\* a limiter with one caller whose first k calls of acquire() were made back to
\* back: no time passed between them
BackToBack(k) ==
    /\ Cardinality(rl_callers) = 1
    /\ k <= Len(rl_log)
    /\ \A j \in 1..k : rl_log[j].called_at = rl_log[1].called_at

\* the hourly limit does not bind in the first k calls
HourlyNotBinding(k) == rph_limit >= k

\* C14 as claimed: for every requests_per_minute = n with the hourly limit not
\* binding, n back-to-back acquire() calls on a fresh limiter return without
\* suspending, and call n+1 suspends for the time remaining until the minute
\* window has refilled, 60 s minus the time since the last refill, not zero.
C14_WaitsForRemainingWindow ==
    \A k \in Grants :
        (BackToBack(k) /\ HourlyNotBinding(k)) =>
            /\ k <= rpm_limit =>
                  /\ rl_log[k].slept = 0
                  /\ rl_log[k].granted_at = rl_log[k].called_at
            /\ k = rpm_limit + 1 =>
                  /\ rl_log[k].slept = 1
                  /\ rl_log[k].wait = MinuteWindow
                  /\ rl_log[k].granted_at >= rl_log[k].called_at + MinuteWindow

\* C14 (amended): as above, but call n+1 suspends for the remaining window only
\* when n < 10; when n >= 10 the ten calls before it put the frequency backoff
\* in force and it suspends for twice the remaining window.
C14_WaitsForRemainingWindowOrTwice ==
    \A k \in Grants :
        (BackToBack(k) /\ HourlyNotBinding(k)) =>
            /\ k <= rpm_limit =>
                  /\ rl_log[k].slept = 0
                  /\ rl_log[k].granted_at = rl_log[k].called_at
            /\ k = rpm_limit + 1 =>
                  LET remaining == IF rpm_limit >= BackoffRequests
                                   THEN BackoffFactor * MinuteWindow
                                   ELSE MinuteWindow
                  IN  /\ rl_log[k].slept = 1
                      /\ rl_log[k].wait = remaining
                      /\ rl_log[k].granted_at >= rl_log[k].called_at + remaining

C14_Witness ==
    /\ rpm_limit = BackoffRequests
    /\ BackToBack(rpm_limit + 1)
    /\ rl_log[rpm_limit].slept = 0
    /\ rl_log[rpm_limit + 1].wait = BackoffFactor * MinuteWindow
    /\ rl_log[rpm_limit + 1].granted_at = BackoffFactor * MinuteWindow

C17_BackoffDelaysNextCall ==
    \A k \in Grants :
        (k > BackoffRequests /\ BackToBack(k)) =>
            /\ rl_log[k].slept >= 1
            /\ rl_log[k].granted_at > rl_log[k].called_at

\* the step is a call of acquire() by caller c
CallsAcquire(c) ==
    /\ rl_pc[c] = "idle"
    /\ rl_budget' = rl_budget - 1
    /\ rl_call'[c].called_at = now
    /\ \/ rl_pc'[c] # "idle"
       \/ Len(rl_log') = Len(rl_log) + 1 /\ rl_log'[Len(rl_log')].caller = c

\* the requests issued within the 60 seconds before the clock reading
RequestsWithin(times, clock) ==
    Cardinality({k \in 1..Len(times) : clock - times[k] < BackoffSpan})

\* C18: the backoff multiplier of an acquire() is 2.0 exactly when at least 10
\* requests were issued within the 60 seconds preceding that acquire(), and 1.0
\* otherwise; it is computed from the request history on every call.
C18_MultiplierFromLastMinute ==
    [][\A c \in Callers :
          CallsAcquire(c) =>
              rl_call'[c].multiplier =
                  IF RequestsWithin(request_times, now) >= BackoffRequests
                  THEN BackoffFactor
                  ELSE 1]_vars

\* C19: in every reachable state 0 <= minute_bucket <= requests_per_minute and
\* 0 <= hour_bucket <= requests_per_hour; a step lowers a bucket only by the one
\* token of a grant, so a refill never lowers a bucket, and it never raises one
\* above its configured maximum.
C19_BucketsWithinLimits ==
    /\ [](/\ 0 <= minute_bucket /\ minute_bucket <= rpm_limit * TokenUnit
          /\ 0 <= hour_bucket /\ hour_bucket <= rph_limit * TokenUnit)
    /\ [][IF Len(rl_log') > Len(rl_log)
          THEN /\ minute_bucket' >= minute_bucket - TokenUnit
               /\ hour_bucket' >= hour_bucket - TokenUnit
               /\ rl_log'[Len(rl_log')].minute_before >= minute_bucket
               /\ rl_log'[Len(rl_log')].hour_before >= hour_bucket
          ELSE /\ minute_bucket' >= minute_bucket
               /\ hour_bucket' >= hour_bucket]_vars

C19_Witness ==
    \E k \in Grants :
        /\ k > 1
        /\ rl_log[k - 1].minute_after < rl_log[k].minute_before
        /\ rl_log[k].minute_before = rpm_limit * TokenUnit
        /\ rl_log[k].hour_before < rph_limit * TokenUnit
        /\ rl_log[k].hour_before > rl_log[k - 1].hour_after
        /\ minute_bucket = 0

\* C20: token bucket refill over time: after all per-minute tokens have been
\* consumed by requests_per_minute consecutive acquire() calls and time then
\* passes with no further acquire() call, the minute_bucket read directly from
\* the limiter is greater than 0.
C20_BucketRefilledWhenRead ==
    (/\ BackToBack(rpm_limit)
     /\ Len(rl_log) = rpm_limit
     /\ Sleeping = {}
     /\ now >= rl_log[rpm_limit].granted_at + 1) =>
        minute_bucket > 0

----------------------------------------------------------------------------
(* The run loop and the completion predicate, checked under Spec *)

\* C30: for every maxIterations >= 0, run(maxIterations, branchId) invokes
\* _run_cycle at most maxIterations times; in particular run(0, ...) runs no
\* cycle and returns false.
C30_AtMostMaxIterationsCycles ==
    /\ Len(cycle_log) <= run_arg
    /\ (pc = "done" /\ run_arg = 0) => (cycle_log = <<>> /\ ret = "false")

----------------------------------------------------------------------------
(* The outcomes of call(), checked under SpecCB *)

\* C29: the fast-fail rejection of an OPEN breaker reaches the caller of call()
\* as a breaker-open outcome of another kind than a failure raised by the
\* wrapped work, whatever the wrapped work raises.
C29_RejectionDistinguishable ==
    \A j, k \in 1..Len(cb_log) :
        (cb_log[j].outcome = "rejected" /\ cb_log[k].outcome = "raised") =>
            ErrorType(cb_log[j].error) # ErrorType(cb_log[k].error)

----------------------------------------------------------------------------
(* The engine on a state directory of earlier runs, checked under SpecOnDisk *)

\* C27: run() never raises for ordinary operational failures: with failing
\* handlers, a corrupt branch marker or a corrupt progress document on disk, a
\* run() that is over has returned a boolean
C27_RunReturnsBoolean == pc = "done" => ret \in {"true", "false"}

\* the cycles of this run() that have ended
EndedCycles == Len(cycle_log) - (IF pc \in {"acquire", "handler"} THEN 1 ELSE 0)

\* the cycle numbers of a list of records
CycleIds(records) == [k \in 1..Len(records) |-> records[k].cycle_id]

StrictlyIncreasing(ids) == \A j, k \in 1..Len(ids) : j < k => ids[j] < ids[k]

\* C24: the cycle list is append-only (a step that changes it leaves the earlier
\* records as they were and adds one record at the end), and after a run the
\* persisted cycles are in strictly increasing cycle number
C24_AppendOnlyIncreasing ==
    /\ [][Persisted' # Persisted =>
              /\ Len(Persisted') = Len(Persisted) + 1
              /\ SubSeq(Persisted', 1, Len(Persisted)) = Persisted]_vars
    /\ [](pc = "done" => StrictlyIncreasing(CycleIds(Persisted)))

\* C24, amended: the cycle list is append-only, and the records a run() has added
\* are the last ones of the list and carry the numbers 1, 2, ... of its cycles;
\* the records an earlier run left come before them with numbers of their own
C24_AppendOnlyIncreasingWithinRun ==
    /\ [][Persisted' # Persisted =>
              /\ Len(Persisted') = Len(Persisted) + 1
              /\ SubSeq(Persisted', 1, Len(Persisted)) = Persisted]_vars
    /\ [](ret # "raised" =>
              /\ Len(Persisted) >= EndedCycles
              /\ \A k \in 1..EndedCycles :
                     Persisted[Len(Persisted) - EndedCycles + k].cycle_id = k)

\* a run of two cycles on a directory that held one record: the list reads 1, 1, 2
C24_Witness ==
    /\ pc = "done"
    /\ CycleIds(Persisted) = <<1, 1, 2>>

\* the last persisted record shows success and carries the signal
LastRecordSignals ==
    /\ Persisted # <<>>
    /\ Persisted[Len(Persisted)].success
    /\ Persisted[Len(Persisted)].output = "PASSED quality 9"

\* no handler has raised during this run()
NoHandlerRaised == \A k \in 1..Len(handler_log) : handler_log[k].outcome # "raised"

\* C28: the default completion predicate is true exactly when 3 cycles have
\* completed on the instance or the last persisted record shows success with the
\* signal; the counter never decreases; and on a fresh engine whose handlers
\* never raise, run() returns true at the end of the 3rd cycle, not earlier
C28_CompleteAfterThreeCycles ==
    /\ [][signal_log' # signal_log =>
              signal_log'[Len(signal_log')].value =
                  (cycles_completed' >= 3 \/ LastRecordSignals')]_vars
    /\ [][cycles_completed' >= cycles_completed]_vars
    /\ []((completed0 = 0 /\ NoHandlerRaised /\ ret = "true") =>
              (Len(cycle_log) = 3 /\ cycles_completed = 3))
    /\ []((completed0 = 0 /\ NoHandlerRaised /\ pc = "done" /\ max_iterations >= 3
           /\ ret # "raised") => ret = "true")

\* a fresh engine returned true from its third cycle, having returned from the
\* first two without completion
C28_Witness ==
    /\ completed0 = 0
    /\ NoHandlerRaised
    /\ ret = "true"
    /\ cycle_log = <<1, 2, 3>>
    /\ sleeps = 2
    /\ [k \in 1..Len(signal_log) |-> signal_log[k].value] \in
           {<<FALSE, FALSE, TRUE>>, <<FALSE, FALSE, FALSE, TRUE>>, <<TRUE, FALSE, FALSE, TRUE>>}

----------------------------------------------------------------------------
(* Properties of the StateManager, checked under SpecSM *)

\* the step is a call of the method op
Calls(op) == sm_last'.n = sm_last.n + 1 /\ sm_last'.op = op

\* the branch the marker names
StoredBranch == GetCurrentBranch(branch_file)

\* C21: archive_current_state(newBranch) with no marker, or with a marker that
\* already names newBranch, creates no folder and leaves the marker untouched;
\* it changes something only when a marker exists and names another branch; a
\* second archive_current_state(newBranch) after a first that returned changes
\* nothing
C21_ArchiveOnlyOnBranchChange ==
    [][Calls("archive") =>
          /\ (StoredBranch = NoBranch \/ StoredBranch = sm_last'.arg) =>
                 (archive' = archive /\ branch_file' = branch_file)
          /\ (archive' # archive \/ branch_file' # branch_file) =>
                 (branch_file.kind = "json" /\ branch_file.branch # sm_last'.arg)
          /\ (sm_last.op = "archive" /\ sm_last.outcome = "returned"
               /\ sm_last.arg = sm_last'.arg) =>
                 (archive' = archive /\ branch_file' = branch_file)]_vars

\* an archive call that found the marker naming its branch after an earlier one
\* had made a folder
C21_Witness ==
    /\ sm_last.op = "archive"
    /\ sm_last.outcome = "returned"
    /\ sm_last.wrote = NoBranch
    /\ StoredBranch = sm_last.arg
    /\ archive # {}

\* C22: when the recorded branch differs from newBranch, archive_current_state
\* makes the folder {date}-{old branch with "/" as "-"}, the folder holds the
\* progress document and the prd document as they are on disk, and afterwards
\* get_current_branch() returns newBranch
C22_ArchiveCopiesAndSwitches ==
    [][(Calls("archive") /\ StoredBranch # NoBranch /\ StoredBranch # sm_last'.arg) =>
          /\ \E e \in archive' :
                /\ e.folder = <<today, Sanitize(StoredBranch)>>
                /\ progress_file.kind # "absent" => e.progress = progress_file
                /\ prd_file # "absent" => e.prd = prd_file
          /\ StoredBranch' = sm_last'.arg]_vars

\* C23: add_pattern leaves the list as it is when it holds the string, and adds
\* the string at the end otherwise; the list never holds a string twice
C23_PatternsAreASet ==
    /\ [][\A p \in Patterns : (Calls("add_pattern") /\ sm_last'.arg = p) =>
              LET before == LoadProgress(progress_file).patterns
                  after == LoadProgress(progress_file').patterns
              IN  IF \E k \in 1..Len(before) : before[k] = p
                  THEN progress_file' = progress_file
                  ELSE after = before \o <<p>>]_vars
    /\ [](LET ps == LoadProgress(progress_file).patterns
          IN  \A j, k \in 1..Len(ps) : ps[j] = ps[k] => j = k)

\* three add_pattern calls, one of them a repeat, left two patterns
C23_Witness ==
    /\ sm_last.op = "add_pattern"
    /\ sm_last.n = 3
    /\ Len(LoadProgress(progress_file).patterns) = 2
    /\ LoadProgress(progress_file).cycles = <<>>

\* the kinds of progress file load_progress cannot take a document from
Unusable == {"absent", "corrupt", "undecodable"}

\* C25: load_progress returns, and returns the empty document when the file is
\* missing, unparseable or unreadable; add_pattern and add_cycle_result called on
\* such a file return and leave a document holding just what they added
C25_LoadNeverRaises ==
    /\ [][Calls("load") =>
              /\ sm_last'.outcome = "returned"
              /\ sm_last'.found \in Unusable =>
                     sm_last'.result = ProgressDoc(<<>>, <<>>)
              /\ sm_last'.found = "json" => sm_last'.result = progress_file]_vars
    /\ [][(Calls("add_pattern") /\ progress_file.kind \in Unusable) =>
              /\ sm_last'.outcome = "returned"
              /\ progress_file' = ProgressDoc(<<>>, <<sm_last'.arg>>)]_vars
    /\ [][(Calls("add_cycle_result") /\ progress_file.kind \in Unusable) =>
              /\ sm_last'.outcome = "returned"
              /\ progress_file'.kind = "json"
              /\ progress_file'.patterns = <<>>
              /\ CycleIds(progress_file'.cycles) = <<sm_last'.cycle>>]_vars

\* load_progress has just returned the empty document for a file that does not
\* parse
C25_Witness ==
    /\ sm_last.op = "load"
    /\ sm_last.found = "corrupt"
    /\ progress_file = CorruptFile
    /\ sm_last.result = ProgressDoc(<<>>, <<>>)

\* C26: get_current_branch() returns None while no marker has been written and
\* the id of the last set_current_branch otherwise; a call that writes no marker
\* leaves it; and once run(_, branchId) has started the marker names branchId
C26_MarkerHoldsLastSet ==
    /\ [](branch_file = AbsentFile => StoredBranch = NoBranch)
    /\ [][sm_last'.n = sm_last.n + 1 =>
              StoredBranch' = (IF sm_last'.wrote # NoBranch THEN sm_last'.wrote
                               ELSE StoredBranch)]_vars
    /\ [](sm_last.op = "run" => StoredBranch = sm_last.arg)

----------------------------------------------------------------------------
(* The completion predicate inside _run_cycle, checked under Spec *)

\* the evaluations of the completion predicate made for cycle c
SignalsOf(c) == {k \in 1..Len(signal_log) : signal_log[k].cycle = c}

\* C31: the completion predicate is evaluated once for a cycle whose five
\* handlers returned, after the cycle's record has been persisted and the counter
\* incremented (the default predicate sees the third completion), and not at all
\* for a cycle in which a handler raised; run() returns true only out of a cycle
\* whose five handlers returned
C31_PredicateOncePerSuccessfulCycle ==
    /\ [][signal_log' # signal_log =>
              LET c == current_cycle.cycle_id
                  last == signal_log'[Len(signal_log')]
              IN  /\ signal_log' = Append(signal_log, last)
                  /\ last.cycle = c
                  /\ AllHandlersReturned(c)'
                  /\ cycles_completed' = cycles_completed + 1
                  /\ Len(Persisted') = Len(Persisted) + 1
                  /\ Persisted'[Len(Persisted')].cycle_id = c
                  /\ Persisted'[Len(Persisted')].success
                  /\ (predicate = "default" /\ cycles_completed' = 3) => last.value]_vars
    /\ [](\A c \in 1..Len(cycle_log) :
              /\ SomeHandlerRaised(c) => SignalsOf(c) = {}
              /\ AllHandlersReturned(c) => Cardinality(SignalsOf(c)) = 1
              /\ Cardinality(SignalsOf(c)) <= 1)
    /\ [](ret = "true" =>
              /\ pc = "done"
              /\ AllHandlersReturned(current_cycle.cycle_id)
              /\ signal_log[Len(signal_log)] =
                     [cycle |-> current_cycle.cycle_id, value |-> TRUE])

\* a cycle failed without an evaluation, the next one succeeded with one, and
\* run() returned true from it
C31_Witness ==
    /\ ret = "true"
    /\ cycle_log = <<1, 2>>
    /\ SomeHandlerRaised(1)
    /\ AllHandlersReturned(2)
    /\ signal_log = <<[cycle |-> 2, value |-> TRUE]>>

----------------------------------------------------------------------------
(* The breaker between calls, checked under SpecCB *)

\* C32: a call rejected because the breaker is OPEN leaves state, failure_count
\* and last_failure_time as they were and does not run func; a call made once the
\* recovery timeout has passed since the last failure is not rejected, however
\* many calls were rejected before it
C32_RejectionChangesNothing ==
    /\ [][(CallMade /\ LastCallNext.outcome = "rejected") =>
              /\ cb_state = "OPEN"
              /\ cb_state' = "OPEN"
              /\ failure_count' = failure_count
              /\ last_failure_time' = last_failure_time
              /\ ~LastCallNext.executed]_vars
    /\ [][(CallMade /\ cb_state = "OPEN" /\ last_failure_time # NoTime
           /\ now - last_failure_time >= recovery_timeout) =>
              LastCallNext.outcome # "rejected"]_vars

\* two rejections in a row, the second one later than the failure that opened
\* the breaker
C32_Witness ==
    /\ Len(cb_log) >= 3
    /\ cb_log[Len(cb_log)].outcome = "rejected"
    /\ cb_log[Len(cb_log) - 1].outcome = "rejected"
    /\ cb_state = "OPEN"
    /\ now > last_failure_time

\* C33: while no call is executing the breaker is not HALF_OPEN, and it is OPEN
\* exactly when failure_count has reached failure_threshold
C33_OpenIffThresholdReached ==
    cb_pc = "idle" =>
        /\ cb_state \in {"CLOSED", "OPEN"}
        /\ cb_state = "OPEN" <=> failure_count >= failure_threshold

\* the breaker has closed again after a rejection and a trial that succeeded
C33_Witness ==
    /\ cb_pc = "idle"
    /\ cb_state = "CLOSED"
    /\ failure_count = 0
    /\ \E k \in 1..Len(cb_log) : cb_log[k].outcome = "rejected"
    /\ cb_log[Len(cb_log)].outcome = "returned"
    /\ cb_log[Len(cb_log)].from = "OPEN"

----------------------------------------------------------------------------
(* The archive and the active progress document, checked under SpecSM *)

\* C34: archive_current_state, called directly or by run(), leaves the progress
\* file as it is, so load_progress() returns the same cycles and patterns after
\* the branch transition as before it; an add_cycle_result after the transition
\* puts its record after the records the document held
C34_ArchiveKeepsProgress ==
    /\ [][(Calls("archive") \/ Calls("run")) =>
              /\ progress_file' = progress_file
              /\ LoadProgress(progress_file').cycles = LoadProgress(progress_file).cycles
              /\ LoadProgress(progress_file').patterns =
                     LoadProgress(progress_file).patterns]_vars
    /\ [][Calls("add_cycle_result") =>
              /\ Len(Persisted') = Len(Persisted) + 1
              /\ SubSeq(Persisted', 1, Len(Persisted)) = Persisted
              /\ Persisted'[Len(Persisted')].cycle_id = sm_last'.cycle]_vars

\* a record was added after a branch transition had archived the document with
\* one record: the active document holds both
C34_Witness ==
    /\ sm_last.op = "add_cycle_result"
    /\ Len(Persisted) = 2
    /\ \E e \in archive : e.progress = ProgressDoc(<<Persisted[1]>>, <<>>)
    /\ StoredBranch # NoBranch

\* C35: a progress document an archive folder holds stays in that folder as it
\* is: no later call overwrites it
C35_SnapshotsKept ==
    [][\A e \in archive :
          e.progress.kind # "absent" =>
              \E f \in archive' : f.folder = e.folder /\ f.progress = e.progress]_vars

----------------------------------------------------------------------------
(* Two writers of one progress.json, checked under SpecWriters *)

\* an item whose add call has returned is missing from the document
LostUpdate == \E item \in wr_added : ~Holds(LoadProgress(progress_file), item)

\* C36: with a single StateManager writing, everything an add_pattern or
\* add_cycle_result call that returned has added is in the document; the lost
\* update is reached only with two writers, whose load and save steps interleave
C36_SingleWriterLosesNothing == wr_set = {1} => ~LostUpdate

\* both writers are out of their calls and the document lacks what one of them
\* added
C36_Witness ==
    /\ wr_set = {1, 2}
    /\ \A w \in Writers : wr_pc[w] = "idle"
    /\ Cardinality(wr_added) = 2
    /\ LostUpdate

----------------------------------------------------------------------------
(* Properties of the GOBOTRateLimiter, checked under SpecGobot *)

\* backoff_multiplier * 1.5, capped at 10
Raised(b) == IF 3 * b[1] > 20 * b[2] THEN <<10, 1>> ELSE <<3 * b[1], 2 * b[2]>>

\* backoff_multiplier * 0.9, floored at 1
Lowered(b) == IF 9 * b[1] < 10 * b[2] THEN <<1, 1>> ELSE <<9 * b[1], 10 * b[2]>>

InPriorityOrder(queue) ==
    \A j, k \in 1..Len(queue) :
        j < k => \/ queue[j].priority < queue[k].priority
                 \/ queue[j].priority = queue[k].priority /\ queue[j].id < queue[k].id

\* the requests the queue holds
Queued(queue) == {queue[k].id : k \in 1..Len(queue)}

\* C38: the queue is always in priority order, first come first among equals; a
\* request is approved as the head of the queue, so with no request of a
\* strictly higher priority in it, with both buckets above 0, and the approval
\* takes one token from each bucket and the request out of the queue; no other
\* step takes a token or a request out
C38_ApprovedInPriorityOrder ==
    /\ [](InPriorityOrder(g_queue))
    /\ [][g_last'.n = g_last.n + 1 =>
              LET a == g_last'
              IN  /\ InPriorityOrder(a.queue)
                  /\ a.queue[1].id = a.id
                  /\ \A k \in 1..Len(a.queue) : a.queue[k].priority >= a.queue[1].priority
                  /\ a.minute_before > 0
                  /\ a.hour_before > 0
                  /\ g_minute' = a.minute_before - GTokenUnit
                  /\ g_hour' = a.hour_before - GTokenUnit
                  /\ g_pc[a.id] # "approved"
                  /\ g_pc'[a.id] = "approved"
                  /\ Queued(g_queue') = Queued(a.queue) \ {a.id}]_vars
    /\ [][g_last'.n = g_last.n =>
              /\ g_minute' >= g_minute
              /\ g_hour' >= g_hour
              /\ Queued(g_queue) \subseteq Queued(g_queue')
              /\ \A id \in Requests : g_pc'[id] = "approved" => g_pc[id] = "approved"]_vars

\* a CRITICAL request that came second was approved ahead of a LOW request that
\* is still waiting
C38_Witness ==
    /\ g_last.id = 2
    /\ g_last.queue = <<[id |-> 2, priority |-> 1], [id |-> 1, priority |-> 4]>>
    /\ g_pc[1] = "sleeping"
    /\ g_pc[2] = "approved"

\* C39: a request that has ended with TimeoutError is no longer in
\* request_queue, so it is never the head that the requests behind it wait for
C39_TimedOutLeavesQueue ==
    \A id \in Requests : g_pc[id] = "timeout" => id \notin Queued(g_queue)

====
